---- MODULE Spec2Model ----
(***************************************************************************)
(* A model of the fortio/tray ray tracer: the Render scheduler of the      *)
(* Tracer (work queue revision and static band revision), RenderLines,     *)
(* the per goroutine random sources carried by rays, Scene.Hit, calls of   *)
(* single functions of package ray, and Main of the two commands.          *)
(*                                                                         *)
(* Floating point values are discretised: a random float in [0,1) is an    *)
(* integer in 0..RngMod-1 (read as v/RngMod), a colour channel in [0,1] is *)
(* an integer in 0..ColOne, a ray direction of the render is one of NDir   *)
(* direction classes.                                                      *)
(***************************************************************************)
EXTENDS Integers, Naturals, Sequences, FiniteSets, TLC

\* ------------------------------------------------------------------ bounds
\* Render: image sizes, worker counts, seeds and entropy values.
MaxHeight == 5
MaxWidth == 2
MaxWorkers == 3
MaxSeed == 1
MaxUint == 1
\* runtime.GOMAXPROCS(0) of the machine.
GoMaxProcs == 2
\* The comparison of the render by 1 worker with the one by EqWorkers workers.
EqSize == 32
EqWorkers == 4
\* Scene.Hit: objects of a scene, positions of their centres, interval ends.
MaxObjects == 3
MaxCenter == 2
MaxEnd == 4
\* Calls of single functions: lengths of ray directions.
MaxScale == 2
\* The defaults of Render: largest value of a setting of the caller.
MaxSetting == 2
\* Scene.RayColor: depths of a call, states of its random source.
MaxColorDepth == 3
MaxDraw == 7
\* RichScene: values a draw of rand.Float64 takes.
RandSteps == 20
\* The key loop of the driver: keys other than q, Q and Ctrl-C, and resizes
\* of the terminal.
MaxKeys == 3
MaxResizes == 2
\* The work queue of Render alone: heights of the image.
MaxFillHeight == 41

\* ------------------------------------------------- constants of the program
MinChunk == 4
ChunksPerWorker == 4
DefaultMaxDepth == 10
DefaultRays == 1
Alpha == 255
GridHalf == 11

\* ------------------------------------------- constants of the discretisation
RngMod == 64
RngMul == 5
RngInc == 3
ColOne == 4
NDir == 4
RadiusOne == 2
DefaultRayRadius == 1
\* 1.0 of a Vec3 or ColorF component kept in thousandths.
FixOne == 1000

Main == 0

Max(a, b) == IF a >= b THEN a ELSE b
Min(a, b) == IF a <= b THEN a ELSE b

\* Goroutine 0 calls Render; the others are the goroutines Render starts.
Workers == 1..Max(MaxWorkers, EqWorkers)
Goroutines == {Main} \cup Workers

\* ------------------------------------------------------------ random sources
\* One step of the generator behind rand.Rand.
RngNext(s) == (RngMul * s + RngInc) % RngMod

\* rand.NewPCG(seed1, seed2): the initial state is a function of both seeds.
NewPCG(seed1, seed2) == (7 * seed1 + 11 * seed2 + 1) % RngMod

\* NewRandomSource(): seeded from the global source, which returns e.
NewRandomSource(e) == NewPCG(e, e)

\* NewRandIdx(idx, seed): seed 0 is randomised, any other seed gives the
\* stream of (idx, seed).
NewRandIdx(idx, seed, e) ==
  IF seed = 0 THEN NewRandomSource(e) ELSE NewPCG(idx, seed)

\* A draw state: heap maps the identity of a random source to its state,
\* used collects the identities drawn from.
\* Rand.Float64 on the source r.
Float64(st, r) ==
  [v |-> st.heap[r],
   st |-> [heap |-> [st.heap EXCEPT ![r] = RngNext(@)],
           used |-> st.used \cup {r}]]

\* Rand.SampleDisc: rejection sampling of a point of the disc.
RECURSIVE SampleDisc(_, _, _)
SampleDisc(st, r, radius) ==
  LET d1 == Float64(st, r)
      d2 == Float64(d1.st, r)
      x == 2 * d1.v - RngMod
      y == 2 * d2.v - RngMod
  IN IF x * x + y * y <= RngMod * RngMod
       THEN [x |-> radius * x, y |-> radius * y, st |-> d2.st]
       ELSE SampleDisc(d2.st, r, radius)

\* RandomUnitVector: three normal draws, retried when the vector is null.
RECURSIVE RandomUnitVector(_, _)
RandomUnitVector(st, r) ==
  LET d1 == Float64(st, r)
      d2 == Float64(d1.st, r)
      d3 == Float64(d2.st, r)
      x == 2 * d1.v - RngMod
      y == 2 * d2.v - RngMod
      z == 2 * d3.v - RngMod
  IN IF x * x + y * y + z * z > 0
       THEN [v |-> <<x, y, z>>, st |-> d3.st]
       ELSE RandomUnitVector(d3.st, r)

\* ---------------------------------------------------------------------- rays
\* A ray that takes the source of the calling goroutine of Render instead
\* of the one it is given.
NewRayShared(r, origin, direction) ==
  [Rand |-> 0, Origin |-> origin, Direction |-> direction]

\* Rand.NewRay: the new ray carries the random source r.
NewRay(r, origin, direction) ==
  [Rand |-> r, Origin |-> origin, Direction |-> direction]

\* ----------------------------------------------------------- colours (ColorF)
Black == <<0, 0, 0>>
Add(a, b) == <<a[1] + b[1], a[2] + b[2], a[3] + b[3]>>
Mul(a, b) ==
  <<(a[1] * b[1]) \div ColOne, (a[2] * b[2]) \div ColOne, (a[3] * b[3]) \div ColOne>>
\* SMul(c, 1/n)
SDivN(c, n) == <<c[1] \div n, c[2] \div n, c[3] \div n>>
\* tcolor.LinearToSrgb: clamps to [0,1] and maps to a byte.
LinearToSrgb(x) == (Max(0, Min(ColOne, x)) * 255) \div ColOne
\* ColorF.ToSRGBA
ToSRGBA(c) == <<LinearToSrgb(c[1]), LinearToSrgb(c[2]), LinearToSrgb(c[3]), Alpha>>

\* ------------------------------------------------- the scene that is rendered
\* DefaultBackground: white to blue.
DefaultBackground == [ColorA |-> <<4, 4, 4>>, ColorB |-> <<2, 3, 4>>]

\* AmbientLight.Hit: blend of the two colours by the height of the direction.
AmbientLightHit(al, ray) ==
  LET a == ray.Direction
  IN <<(al.ColorA[1] * (ColOne - a) + al.ColorB[1] * a) \div ColOne,
       (al.ColorA[2] * (ColOne - a) + al.ColorB[2] * a) \div ColOne,
       (al.ColorA[3] * (ColOne - a) + al.ColorB[3] * a) \div ColOne>>

\* DefaultScene: what a ray of each direction class hits first.
DefaultScene ==
  [Objects |-> <<[kind |-> "none"],
                 [kind |-> "Lambertian", Albedo |-> <<1, 2, 3>>],
                 [kind |-> "Metal", Albedo |-> <<4, 3, 3>>, Fuzz |-> 1],
                 [kind |-> "Dielectric", RefIdx |-> 6]>>,
   Background |-> DefaultBackground]

\* Scene.Hit of the rendered scene, per direction class.
RenderSceneHit(scene, ray) == scene.Objects[ray.Direction + 1]

DirClass(n) == n % NDir
VecSum(v) == (v[1] + v[2] + v[3]) \div 2

\* Lambertian.Scatter: always scatters, around the normal.
LambertianScatter(m, st, rIn) ==
  LET uv == RandomUnitVector(st, rIn.Rand)
  IN [ok |-> TRUE, att |-> m.Albedo,
      ray |-> NewRay(rIn.Rand, rIn.Origin + 1, DirClass(rIn.Direction + VecSum(uv.v))),
      st |-> uv.st]

\* Metal.Scatter: mirror reflection, fuzzed when Fuzz > 0, absorbed when
\* the result points into the surface.
MetalScatter(m, st, rIn) ==
  LET refl == DirClass(NDir - rIn.Direction)
      uv == IF m.Fuzz > 0 THEN RandomUnitVector(st, rIn.Rand)
                          ELSE [v |-> <<0, 0, 0>>, st |-> st]
      d == DirClass(refl + m.Fuzz * VecSum(uv.v))
      scattered == NewRay(rIn.Rand, rIn.Origin + 1, d)
  IN IF d # DirClass(refl + 2)
       THEN [ok |-> TRUE, att |-> m.Albedo, ray |-> scattered, st |-> uv.st]
       ELSE [ok |-> FALSE, att |-> Black, ray |-> scattered, st |-> uv.st]

\* Dielectric.Scatter: reflects when it cannot refract or when the
\* reflectance exceeds a random draw, refracts otherwise.
DielectricScatter(m, st, rIn) ==
  LET cannotRefract == rIn.Origin % 2 = 1
      d == IF cannotRefract THEN [v |-> 0, st |-> st] ELSE Float64(st, rIn.Rand)
      direction == IF cannotRefract \/ RngMod \div m.RefIdx > d.v
                     THEN DirClass(NDir - rIn.Direction)
                     ELSE DirClass(rIn.Direction + 1)
  IN [ok |-> TRUE, att |-> <<ColOne, ColOne, ColOne>>,
      ray |-> NewRay(rIn.Rand, rIn.Origin + 1, direction), st |-> d.st]

\* Material.Scatter
Scatter(m, st, rIn) ==
  IF m.kind = "Lambertian" THEN LambertianScatter(m, st, rIn)
  ELSE IF m.kind = "Metal" THEN MetalScatter(m, st, rIn)
  ELSE DielectricScatter(m, st, rIn)

\* The colour of a scattered ray: the attenuation times the colour rec that
\* the recursive call returned.
Attenuate(att, rec) == [c |-> Mul(att, rec.c), st |-> rec.st]

\* Scene.RayColor
RECURSIVE RayColor(_, _, _, _)
RayColor(scene, st, r, depth) ==
  IF depth <= 0 THEN [c |-> Black, st |-> st]
  ELSE LET m == RenderSceneHit(scene, r)
       IN IF m.kind # "none"
            THEN LET sc == Scatter(m, st, r)
                 IN IF sc.ok
                      THEN Attenuate(sc.att, RayColor(scene, sc.st, sc.ray, depth - 1))
                      ELSE [c |-> Black, st |-> sc.st]
            ELSE [c |-> AmbientLightHit(scene.Background, r), st |-> st]

\* The ray of GetRay whose origin is the point d sampled on the lens disc.
DefocusRay(rng, sample, d) ==
  [ray |-> NewRay(rng, 0, DirClass(sample + (d.x + d.y) \div RngMod)), st |-> d.st]

\* Camera.GetRay: the primary ray of pixel (x, y) with a sub-pixel offset;
\* with a non-zero aperture the origin is sampled on the lens disc.
GetRay(camera, st, rng, x, y, offsetX, offsetY) ==
  LET sample == x + 2 * y + (offsetX + offsetY) \div RngMod
  IN IF camera.Aperture = 0
       THEN [ray |-> NewRay(rng, 0, DirClass(sample)), st |-> st]
       ELSE DefocusRay(rng, sample, SampleDisc(st, rng, RadiusOne))

\* ------------------------------------------------------------------- state
VARIABLES
  sched,          \* revision of Render: "queue" (work queue) or "bands"
  t,              \* the Tracer: its configuration fields, width and height
  imageData,      \* t.imageData.Pix, as rows of RGBA pixels
  pc,             \* where the goroutine that calls Render is
  wg,             \* counter of the sync.WaitGroup of Render
  workQueue,      \* buffered channel of work chunks
  qcap,           \* capacity of workQueue
  closed,         \* workQueue has been closed
  chunkSize,      \* local of Render
  fillY,          \* loop variable of the fill loop / startY of the band loop
  spawned,        \* number of goroutines started by this Render
  w,              \* per goroutine: position and locals of its RenderLines
  rng,            \* state of the random source made by each goroutine
  rngUsers,       \* goroutines that drew from the source made by each goroutine
  covered,        \* per row: RenderLines invocations of this Render covering it
  rowWrites,      \* per row: times its pixels were written by this Render
  progressCalls,  \* ProgressFunc calls of this Render
  progressTotal,  \* sum of the deltas passed to ProgressFunc by this Render
  hitCall,        \* a call of Scene.Hit: its arguments and its results
  given,          \* the Tracer as the caller of Render set it
  call            \* a call of another function: its arguments and its results

vars == <<sched, t, imageData, pc, wg, workQueue, qcap, closed, chunkSize,
          fillY, spawned, w, rng, rngUsers, covered, rowWrites,
          progressCalls, progressTotal, hitCall, given, call>>

Rows == 0..(t.height - 1)
Uint64s == 0..MaxUint
NoLines == [pc |-> "none", yStart |-> 0, yEnd |-> 0, y |-> 0]

\* Camera and settings a caller gives to the Tracer: everything left at its
\* zero value, or everything set.
Profiles ==
  {[MaxDepth |-> 0, NumRaysPerPixel |-> 0, RayRadius |-> 0, Aperture |-> 0],
   [MaxDepth |-> 2, NumRaysPerPixel |-> 2, RayRadius |-> RadiusOne, Aperture |-> 1]}

\* New(width, height) followed by the caller's assignments to the exported
\* fields of the Tracer.
RenderInit ==
  /\ sched \in {"queue", "bands"}
  /\ \E wd \in 0..MaxWidth, ht \in 0..MaxHeight, nw \in 0..MaxWorkers,
        sd \in 0..MaxSeed, pf \in BOOLEAN, p \in Profiles :
       /\ sched = "bands" => sd = 0
       /\ t = [width |-> wd, height |-> ht, NumWorkers |-> nw, Seed |-> sd,
               ProgressFunc |-> pf, MaxDepth |-> p.MaxDepth,
               NumRaysPerPixel |-> p.NumRaysPerPixel, RayRadius |-> p.RayRadius,
               Camera |-> [Aperture |-> p.Aperture]]
       /\ imageData = [y \in 0..(ht - 1) |-> [x \in 1..wd |-> <<0, 0, 0, 0>>]]
       /\ covered = [y \in 0..(ht - 1) |-> 0]
       /\ rowWrites = [y \in 0..(ht - 1) |-> 0]
  /\ pc = "idle"
  /\ wg = 0
  /\ workQueue = <<>>
  /\ qcap = 0
  /\ closed = FALSE
  /\ chunkSize = 0
  /\ fillY = 0
  /\ spawned = 0
  /\ w = [g \in Goroutines |-> NoLines]
  /\ rng = [g \in Goroutines |-> 0]
  /\ rngUsers = [g \in Goroutines |-> {}]
  /\ progressCalls = 0
  /\ progressTotal = 0
  /\ given = t

NoHitCall == [pc |-> "none"]
NoCall == [pc |-> "none"]

Init == RenderInit /\ hitCall = NoHitCall /\ call = NoCall

\* --------------------------------------------------------------- RenderLines
\* The sub-pixel offset of a ray: sampled when the pixel has several rays.
RayOffset(tr, st, r) ==
  IF tr.NumRaysPerPixel > 1 THEN SampleDisc(st, r, tr.RayRadius)
                            ELSE [x |-> 0, y |-> 0, st |-> st]

\* t.Camera.GetRay(rng, fx + offsetX, fy + offsetY) for the offset off.
OffsetRay(tr, r, x, y, off) == GetRay(tr.Camera, off.st, r, x, y, off.x, off.y)

\* scene.RayColor(ray, t.MaxDepth) for the ray gr of GetRay.
PrimaryColor(tr, scene, gr) == RayColor(scene, gr.st, gr.ray, tr.MaxDepth)

\* colorSum = Add(colorSum, color)
AddColor(acc, rc) == [c |-> Add(acc.c, rc.c), st |-> rc.st]

\* One iteration of the loop over the rays of pixel (x, y); acc holds
\* colorSum and the draw state.
PixelRay(tr, scene, acc, r, x, y) ==
  AddColor(acc, PrimaryColor(tr, scene,
                             OffsetRay(tr, r, x, y, RayOffset(tr, acc.st, r))))

\* The rays of one pixel: the loop over NumRaysPerPixel, n rays to go.
RECURSIVE PixelRays(_, _, _, _, _, _, _)
PixelRays(tr, scene, acc, r, x, y, n) ==
  IF n = 0 THEN acc
  ELSE PixelRays(tr, scene, PixelRay(tr, scene, acc, r, x, y), r, x, y, n - 1)

\* The pixel written from the colour sum p: ToSRGBA of the mean.
AddPixel(tr, row, p) ==
  [pix |-> Append(row.pix, ToSRGBA(SDivN(p.c, tr.NumRaysPerPixel))), st |-> p.st]

\* The pixels of row y: the loop over the columns; row holds the pixels
\* written so far, whose number is the column x, and the draw state.
RECURSIVE RowPixels(_, _, _, _, _)
RowPixels(tr, scene, row, r, y) ==
  IF Len(row.pix) >= tr.width THEN row
  ELSE RowPixels(tr, scene,
                 AddPixel(tr, row,
                          PixelRays(tr, scene, [c |-> Black, st |-> row.st], r,
                                    Len(row.pix), y, tr.NumRaysPerPixel)),
                 r, y)

\* A row loop that writes the pixels of its row into every row of the image.
StoreRowEverywhere(lines, row) ==
  [img |-> [y \in DOMAIN lines.img |-> row.pix], y |-> lines.y + 1, st |-> row.st]

\* The rows written by a row loop: lines holds the image, the row y the
\* loop is at and the draw state.
StoreRow(lines, row) ==
  [img |-> [lines.img EXCEPT ![lines.y] = row.pix], y |-> lines.y + 1,
   st |-> row.st]

\* The row loop of RenderLines run by goroutine g up to yEnd without a pause.
RECURSIVE LinesLoop(_, _, _, _)
LinesLoop(tr, lines, g, yEnd) ==
  IF lines.y >= yEnd THEN lines
  ELSE LinesLoop(tr,
                 StoreRow(lines,
                          RowPixels(tr, DefaultScene,
                                    [pix |-> <<>>, st |-> lines.st], g, lines.y)),
                 g, yEnd)

\* A source that ignores index and seed.
LinesRandUnseeded(idx, seed, e) == NewRandomSource(e)

\* The random source of a RenderLines invocation of the work queue revision.
LinesRand(idx, seed, e) == NewRandIdx(idx, seed, e)

\* Entry of RenderLines(idx, yStart, yEnd) by goroutine g: makes its source.
EnterLines(g, idx, yStart, yEnd, src) ==
  /\ w' = [w EXCEPT ![g] = [pc |-> "lines", yStart |-> yStart, yEnd |-> yEnd,
                            y |-> yStart]]
  /\ rng' = [rng EXCEPT ![g] = src]
  /\ rngUsers' = [rngUsers EXCEPT ![g] = {}]
  /\ covered' = [y \in Rows |->
                   IF yStart <= y /\ y < yEnd THEN covered[y] + 1 ELSE covered[y]]

\* A progress call that counts rows instead of pixels.
ProgressDeltaRows(tr) == 1

\* The argument of the ProgressFunc call of a row: t.ProgressFunc(t.width).
ProgressDelta(tr) == tr.width

\* What goroutine g leaves behind after the rows yStart..lines.y-1 of its
\* RenderLines: the image, the state of the sources that were drawn from and
\* the progress calls. users is who had drawn from each source before;
\* returned tells that RenderLines has returned and its source is no more.
RowsRendered(g, yStart, users, returned, lines) ==
  /\ imageData' = lines.img
  /\ rng' = IF returned THEN [lines.st.heap EXCEPT ![g] = 0] ELSE lines.st.heap
  /\ rngUsers' = [r \in Goroutines |->
                    IF r \in lines.st.used THEN users[r] \cup {g} ELSE users[r]]
  /\ rowWrites' = [y \in Rows |->
                     IF yStart <= y /\ y < lines.y THEN rowWrites[y] + 1
                                                   ELSE rowWrites[y]]
  /\ progressCalls' = IF t.ProgressFunc THEN progressCalls + (lines.y - yStart)
                                        ELSE progressCalls
  /\ progressTotal' = IF t.ProgressFunc
                        THEN progressTotal + (lines.y - yStart) * ProgressDelta(t)
                        ELSE progressTotal

\* The row loop of goroutine g at row y, before it draws.
LinesAt(heap, y) == [img |-> imageData, y |-> y, st |-> [heap |-> heap, used |-> {}]]

\* One iteration of the row loop of RenderLines by goroutine g.
RenderRow(g) ==
  /\ w[g].pc = "lines"
  /\ w[g].y < w[g].yEnd
  /\ RowsRendered(g, w[g].y, rngUsers, FALSE,
                  LinesLoop(t, LinesAt(rng, w[g].y), g, w[g].y + 1))
  /\ w' = [w EXCEPT ![g].y = @ + 1]
  /\ UNCHANGED <<sched, t, pc, wg, workQueue, qcap, closed, chunkSize, fillY,
                 spawned, covered, hitCall, given, call>>

\* The whole row loop of a RenderLines invocation by goroutine g in one step.
RenderLinesLoop(g) ==
  /\ w[g].pc = "lines"
  /\ w[g].y < w[g].yEnd
  /\ RowsRendered(g, w[g].y, rngUsers, FALSE,
                  LinesLoop(t, LinesAt(rng, w[g].y), g, w[g].yEnd))
  /\ w' = [w EXCEPT ![g].y = w[g].yEnd]
  /\ UNCHANGED <<sched, t, pc, wg, workQueue, qcap, closed, chunkSize, fillY,
                 spawned, covered, hitCall, given, call>>

\* --------------------------------------------------------------------- Render
\* Defaults that replace a MaxDepth of 0 only, not a negative one.
ApplyDefaultsZeroDepth(tr) ==
  [tr EXCEPT !.MaxDepth = IF @ = 0 THEN DefaultMaxDepth ELSE @,
             !.NumRaysPerPixel = IF @ <= 0 THEN DefaultRays ELSE @,
             !.RayRadius = IF @ <= 0 THEN DefaultRayRadius ELSE @,
             !.NumWorkers = IF @ <= 0 THEN GoMaxProcs ELSE @]

\* The defaults Render writes into the Tracer.
ApplyDefaults(tr) ==
  [tr EXCEPT !.MaxDepth = IF @ <= 0 THEN DefaultMaxDepth ELSE @,
             !.NumRaysPerPixel = IF @ <= 0 THEN DefaultRays ELSE @,
             !.RayRadius = IF @ <= 0 THEN DefaultRayRadius ELSE @,
             !.NumWorkers = IF @ <= 0 THEN GoMaxProcs ELSE @]

\* A chunk size without the minimum of MinChunk rows.
ChunkSizeNoMin(height, numWorkers) == height \div (numWorkers * ChunksPerWorker)

\* chunkSize := max(4, t.height/(t.NumWorkers*4))
ChunkSize(height, numWorkers) ==
  Max(MinChunk, height \div (numWorkers * ChunksPerWorker))

\* A number of chunks that is rounded down.
NumChunksRoundedDown(height, size) == height \div size

\* numChunks := (t.height + chunkSize - 1) / chunkSize
NumChunks(height, size) == (height + size - 1) \div size

\* A chunk that is not cut at the last row of the image.
WorkChunkUncut(y, size, height) == [startY |-> y, endY |-> y + size]

\* A chunk that runs one row into the next chunk.
WorkChunkOverlap(y, size, height) == [startY |-> y, endY |-> Min(y + size + 1, height)]

\* The chunk the fill loop sends for the row y.
WorkChunk(y, size, height) == [startY |-> y, endY |-> Min(y + size, height)]

\* Bands that forget the remainder rows.
BandEndNoRemainder(startY, i, height, numWorkers) == startY + height \div numWorkers

\* The band of the i-th goroutine of the band revision, starting at startY.
BandEnd(startY, i, height, numWorkers) ==
  startY + height \div numWorkers + (IF i < height % numWorkers THEN 1 ELSE 0)

\* Render, from its entry to the choice of the scheduling path.
Render ==
  /\ pc = "idle"
  /\ t' = ApplyDefaults(t)
  /\ IF sched = "bands"
       THEN /\ pc' = "bands"
            /\ chunkSize' = 0
            /\ qcap' = 0
       ELSE IF t'.NumWorkers = 1
         THEN /\ pc' = "single"
              /\ chunkSize' = 0
              /\ qcap' = 0
         ELSE /\ pc' = "fill"
              /\ chunkSize' = ChunkSize(t.height, t'.NumWorkers)
              /\ qcap' = NumChunks(t.height, chunkSize')
  /\ UNCHANGED <<sched, imageData, wg, workQueue, closed, fillY, spawned, w,
                 rng, rngUsers, covered, rowWrites, progressCalls,
                 progressTotal,
                 hitCall, given, call>>

\* NumWorkers = 1: RenderLines(0, 0, t.height) on the calling goroutine.
RenderSingle ==
  /\ pc = "single"
  /\ \E e \in Uint64s :
       EnterLines(Main, 0, 0, t.height, LinesRand(0, t.Seed, e))
  /\ pc' = "lines"
  /\ UNCHANGED <<sched, t, imageData, wg, workQueue, qcap, closed, chunkSize,
                 fillY, spawned, rowWrites, progressCalls, progressTotal,
                 hitCall, given, call>>

\* One iteration of the fill loop: a send on the buffered channel.
FillQueue ==
  /\ pc = "fill"
  /\ fillY < t.height
  /\ Len(workQueue) < qcap
  /\ workQueue' = Append(workQueue, WorkChunk(fillY, chunkSize, t.height))
  /\ fillY' = fillY + chunkSize
  /\ UNCHANGED <<sched, t, imageData, pc, wg, qcap, closed, chunkSize, spawned,
                 w, rng, rngUsers, covered, rowWrites, progressCalls,
                 progressTotal,
                 hitCall, given, call>>

\* End of the fill loop: close(workQueue).
CloseQueue ==
  /\ pc = "fill"
  /\ fillY >= t.height
  /\ closed' = TRUE
  /\ pc' = "spawn"
  /\ UNCHANGED <<sched, t, imageData, wg, workQueue, qcap, chunkSize, fillY,
                 spawned, w, rng, rngUsers, covered, rowWrites, progressCalls,
                 progressTotal,
                 hitCall, given, call>>

\* A spawn loop without wg.Add(1).
WgAddMissing(n) == n

\* wg.Add(1) of the goroutine about to be started.
WgAdd(n) == n + 1

\* One iteration of the spawn loop of the work queue revision.
SpawnWorker ==
  /\ pc = "spawn"
  /\ spawned < t.NumWorkers
  /\ wg' = WgAdd(wg)
  /\ w' = [w EXCEPT ![spawned + 1] = [NoLines EXCEPT !.pc = "recv"]]
  /\ spawned' = spawned + 1
  /\ pc' = IF spawned' < t.NumWorkers THEN "spawn" ELSE "wait"
  /\ UNCHANGED <<sched, t, imageData, workQueue, qcap, closed, chunkSize, fillY,
                 rng, rngUsers, covered, rowWrites, progressCalls,
                 progressTotal,
                 hitCall, given, call>>

\* A worker that seeds RenderLines with its own number instead of the chunk.
WorkerRecvByWorker(g) ==
  /\ w[g].pc = "recv"
  /\ workQueue # <<>>
  /\ LET chunk == Head(workQueue)
     IN \E e \in Uint64s :
          EnterLines(g, g, chunk.startY, chunk.endY, LinesRand(g, t.Seed, e))
  /\ workQueue' = Tail(workQueue)
  /\ UNCHANGED <<sched, t, imageData, pc, wg, qcap, closed, chunkSize, fillY,
                 spawned, rowWrites, progressCalls, progressTotal,
                 hitCall, given, call>>

\* A worker receives a chunk and calls RenderLines(startY, startY, endY).
WorkerRecv(g) ==
  /\ w[g].pc = "recv"
  /\ workQueue # <<>>
  /\ LET chunk == Head(workQueue)
     IN \E e \in Uint64s :
          EnterLines(g, chunk.startY, chunk.startY, chunk.endY,
                     LinesRand(chunk.startY, t.Seed, e))
  /\ workQueue' = Tail(workQueue)
  /\ UNCHANGED <<sched, t, imageData, pc, wg, qcap, closed, chunkSize, fillY,
                 spawned, rowWrites, progressCalls, progressTotal,
                 hitCall, given, call>>

\* One iteration of a worker's receive loop in one step: the chunk is
\* received and RenderLines(startY, startY, endY) runs to its return, where
\* its locals (the source, the row counter) cease to exist.
WorkerChunk(g) ==
  /\ w[g].pc = "recv"
  /\ workQueue # <<>>
  /\ \E e \in Uint64s :
       LET chunk == Head(workQueue)
           src == LinesRand(chunk.startY, t.Seed, e)
       IN /\ RowsRendered(g, chunk.startY, [rngUsers EXCEPT ![g] = {}], TRUE,
                          LinesLoop(t, LinesAt([rng EXCEPT ![g] = src], chunk.startY),
                                    g, chunk.endY))
          /\ covered' = [y \in Rows |->
                           IF chunk.startY <= y /\ y < chunk.endY
                             THEN covered[y] + 1 ELSE covered[y]]
  /\ w' = [w EXCEPT ![g] = [NoLines EXCEPT !.pc = "recv"]]
  /\ workQueue' = Tail(workQueue)
  /\ UNCHANGED <<sched, t, pc, wg, qcap, closed, chunkSize, fillY, spawned,
                 hitCall, given, call>>

\* A worker finds the queue closed and drained: deferred wg.Done().
WorkerExit(g) ==
  /\ w[g].pc = "recv"
  /\ workQueue = <<>>
  /\ closed
  /\ wg' = wg - 1
  /\ w' = [w EXCEPT ![g].pc = "exit"]
  /\ UNCHANGED <<sched, t, imageData, pc, workQueue, qcap, closed, chunkSize,
                 fillY, spawned, rng, rngUsers, covered, rowWrites,
                 progressCalls, progressTotal, hitCall, given, call>>

\* One iteration of the loop of the band revision: go func(startY, endY).
SpawnBand ==
  /\ pc = "bands"
  /\ spawned < t.NumWorkers
  /\ LET endY == BandEnd(fillY, spawned, t.height, t.NumWorkers)
     IN /\ w' = [w EXCEPT ![spawned + 1] =
                   [pc |-> "go", yStart |-> fillY, yEnd |-> endY, y |-> fillY]]
        /\ fillY' = endY
  /\ wg' = WgAdd(wg)
  /\ spawned' = spawned + 1
  /\ pc' = IF spawned' < t.NumWorkers THEN "bands" ELSE "wait"
  /\ UNCHANGED <<sched, t, imageData, workQueue, qcap, closed, chunkSize, rng,
                 rngUsers, covered, rowWrites, progressCalls, progressTotal,
                 hitCall, given, call>>

\* A goroutine of the band revision starts: RenderLines(yStart, yEnd).
BandRun(g) ==
  /\ w[g].pc = "go"
  /\ \E e \in Uint64s :
       EnterLines(g, 0, w[g].yStart, w[g].yEnd, NewRandomSource(e))
  /\ UNCHANGED <<sched, t, imageData, pc, wg, workQueue, qcap, closed,
                 chunkSize, fillY, spawned, rowWrites, progressCalls,
                 progressTotal,
                 hitCall, given, call>>

\* RenderLines returns: to Render on the calling goroutine, to the receive
\* loop of a worker, or to wg.Done() of a band goroutine.
LinesReturn(g) ==
  /\ w[g].pc = "lines"
  /\ w[g].y >= w[g].yEnd
  /\ IF g = Main
       THEN /\ pc' = "returned"
            /\ w' = [w EXCEPT ![g].pc = "exit"]
            /\ wg' = wg
       ELSE IF sched = "queue"
         THEN /\ w' = [w EXCEPT ![g].pc = "recv"]
              /\ UNCHANGED <<pc, wg>>
         ELSE /\ w' = [w EXCEPT ![g].pc = "exit"]
              /\ wg' = wg - 1
              /\ UNCHANGED pc
  /\ UNCHANGED <<sched, t, imageData, workQueue, qcap, closed, chunkSize, fillY,
                 spawned, rng, rngUsers, covered, rowWrites, progressCalls,
                 progressTotal,
                 hitCall, given, call>>

\* wg.Wait() and the return of the image buffer.
WaitReturn ==
  /\ pc = "wait"
  /\ wg = 0
  /\ pc' = "returned"
  /\ UNCHANGED <<sched, t, imageData, wg, workQueue, qcap, closed, chunkSize,
                 fillY, spawned, w, rng, rngUsers, covered, rowWrites,
                 progressCalls, progressTotal, hitCall, given, call>>

Next ==
  \/ Render
  \/ RenderSingle
  \/ FillQueue
  \/ CloseQueue
  \/ SpawnWorker
  \/ SpawnBand
  \/ WaitReturn
  \/ \E g \in Workers : WorkerRecv(g)
  \/ \E g \in Workers : WorkerExit(g)
  \/ \E g \in Workers : BandRun(g)
  \/ \E g \in Goroutines : RenderRow(g)
  \/ \E g \in Goroutines : LinesReturn(g)

Spec == Init /\ [][Next]_vars

\* The scheduler of Go runs a goroutine that can run: a step that stays
\* possible is taken. The computation of a pixel terminates: RenderRow is
\* one step. The weak fairness of RenderRow(g) is written with its enabling
\* condition, the row loop of g having a row to go.
SpecFair ==
  /\ Init
  /\ [][Next]_vars
  /\ WF_vars(\/ Render
             \/ RenderSingle
             \/ FillQueue
             \/ CloseQueue
             \/ SpawnWorker
             \/ SpawnBand
             \/ WaitReturn
             \/ \E g \in Workers : WorkerRecv(g)
             \/ \E g \in Workers : WorkerExit(g)
             \/ \E g \in Workers : BandRun(g)
             \/ \E g \in Goroutines : LinesReturn(g))
  /\ \A g \in Goroutines :
       \/ []<>(~(w[g].pc = "lines" /\ w[g].y < w[g].yEnd))
       \/ []<><<RenderRow(g)>>_vars

\* ------------------------------------------------------------ Render: claims
Returned == pc = "returned"
Finished(g) == w[g].pc \in {"none", "exit"}
Pixel(x, y) == imageData[y][x + 1]

\* C1: when Render returns, every row has been rendered by exactly one
\* RenderLines invocation and every pixel has alpha 255, for every
\* NumWorkers >= 1, also when there are more workers than rows.
C1_EveryRowRenderedOnce ==
  Returned =>
    \A y \in Rows :
      /\ covered[y] = 1
      /\ rowWrites[y] = 1
      /\ Len(imageData[y]) = t.width
      /\ \A x \in 0..(t.width - 1) : Pixel(x, y)[4] = Alpha

C1_Witness ==
  /\ Returned
  /\ t.NumWorkers > t.height
  /\ t.height > 1
  /\ t.width > 0
  /\ \A y \in Rows : rowWrites[y] = 1 /\ Pixel(0, y)[4] = Alpha

\* C2: at every moment the row ranges of the RenderLines invocations of a
\* Render are pairwise disjoint bands: no row is covered by two invocations
\* and no row is written twice, whatever the interleaving.
C2_DisjointBands ==
  /\ \A y \in Rows : covered[y] <= 1 /\ rowWrites[y] <= covered[y]
  /\ \A g \in Goroutines, h \in Goroutines :
       (g # h /\ w[g].pc = "lines" /\ w[h].pc = "lines")
         => (w[g].yEnd <= w[h].yStart \/ w[h].yEnd <= w[g].yStart)
  /\ \A g \in Goroutines :
       w[g].pc = "lines" =>
         /\ w[g].yStart <= w[g].y
         /\ w[g].y <= w[g].yEnd
         /\ w[g].yEnd <= t.height
         /\ \A y \in w[g].yStart..(w[g].yEnd - 1) :
              rowWrites[y] = (IF y < w[g].y THEN 1 ELSE 0)

C2_Witness ==
  \E g \in Workers, h \in Workers :
    /\ g # h
    /\ w[g].pc = "lines" /\ w[g].yStart < w[g].y /\ w[g].y < w[g].yEnd
    /\ w[h].pc = "lines" /\ w[h].yStart < w[h].y /\ w[h].y < w[h].yEnd

\* C3: Render has returned only when every goroutine it started has
\* finished, so nothing writes pixels or calls ProgressFunc afterwards.
C3_ReturnAfterJoin ==
  Returned => (wg = 0 /\ \A g \in Goroutines : Finished(g))

C3_Witness ==
  /\ Returned
  /\ spawned >= 2
  /\ \E g \in Workers, h \in Workers :
       g # h /\ w[g].pc = "exit" /\ w[h].pc = "exit" /\ w[g].y > 0 /\ w[h].y > 0

\* C8: with ProgressFunc set, a Render calls it exactly height times, each
\* time with delta = width, so the deltas total width * height at return;
\* it is never called more often than rows were rendered.
C8_ProgressPerRow ==
  /\ t.ProgressFunc => progressTotal = progressCalls * t.width
  /\ (Returned /\ t.ProgressFunc) =>
       (progressCalls = t.height /\ progressTotal = t.width * t.height)
  /\ ~t.ProgressFunc => progressCalls = 0

C8_Witness ==
  /\ Returned
  /\ t.ProgressFunc
  /\ t.NumWorkers > 1
  /\ t.height > MinChunk
  /\ t.width > 1
  /\ progressCalls = t.height

\* ------------------------------------------------- Render: determinism claims
\* The rows yStart..yEnd-1 as one RenderLines computes them in row order
\* from a source in state s0, in an image of the height of tr.
LinesImage(tr, s0, yStart, yEnd) ==
  LinesLoop(tr, [img |-> [y \in 0..(tr.height - 1) |-> <<>>], y |-> yStart,
                 st |-> [heap |-> [g \in {Main} |-> s0], used |-> {}]],
            Main, yEnd).img

\* The image of one stream derived from (0, Seed) over all the rows.
SingleStreamImage(tr) == LinesImage(tr, NewRandIdx(0, tr.Seed, 0), 0, tr.height)

\* The image whose chunks each have the stream derived from (start row, Seed).
ChunkStreamsImage(tr) ==
  LET size == ChunkSize(tr.height, tr.NumWorkers)
      start(y) == (y \div size) * size
      rows(c) == LinesImage(tr, NewRandIdx(c, tr.Seed, 0), c, Min(c + size, tr.height))
  IN [y \in 0..(tr.height - 1) |-> rows(start(y))[y]]

Seeded == sched = "queue" /\ t.Seed # 0

\* C4: with NumWorkers = 1 and a non-zero Seed the image Render returns is a
\* function of the settings alone: it is the image of one RenderLines call
\* over all rows, run by the calling goroutine with the stream of (0, Seed).
C4_SingleWorkerDeterministic ==
  (Seeded /\ t.NumWorkers = 1) =>
    /\ \A g \in Workers : w[g].pc = "none"
    /\ w[Main].pc # "none" => (w[Main].yStart = 0 /\ w[Main].yEnd = t.height)
    /\ Returned => imageData = SingleStreamImage(t)

C4_Witness ==
  /\ Seeded
  /\ t.NumWorkers = 1
  /\ Returned
  /\ t.height > MinChunk
  /\ t.width > 1
  /\ t.NumRaysPerPixel > 1
  /\ rngUsers[Main] = {Main}

\* C5: with NumWorkers > 1 and a non-zero Seed the image Render returns does
\* not depend on the interleaving: a chunk starts from the stream of
\* (its start row, Seed), whichever worker received it and whenever.
C5_ChunkSeedDeterministic ==
  (Seeded /\ pc # "idle" /\ t.NumWorkers > 1) =>
    /\ \A g \in Workers :
         (w[g].pc = "lines" /\ w[g].y = w[g].yStart)
           => rng[g] = NewRandIdx(w[g].yStart, t.Seed, 0)
    /\ Returned => imageData = ChunkStreamsImage(t)

C5_Witness ==
  /\ Seeded
  /\ t.NumWorkers > 1
  /\ Returned
  /\ t.height > MinChunk
  /\ t.width > 1
  /\ w[2].y > MinChunk
  /\ w[1].y > 0
  /\ rngUsers[1] = {1}

\* C7: a random source is only ever drawn from by the goroutine that made
\* it in its RenderLines invocation: the rays of that invocation, primary
\* and scattered, carry that source and no other.
C7_NoSharedRand ==
  \A r \in Goroutines : rngUsers[r] \subseteq {r}

C7_Witness ==
  \E g \in Workers, h \in Workers :
    /\ g # h
    /\ w[g].pc = "lines" /\ rngUsers[g] = {g}
    /\ w[h].pc = "lines" /\ rngUsers[h] = {h}
    /\ t.MaxDepth = DefaultMaxDepth

\* --------------------------------------- the 1 worker / 4 workers comparison
\* A Tracer of EqSize x EqSize pixels with a non-zero Seed, rendered by the
\* work queue revision with 1 worker or with EqWorkers workers. The rows of
\* a RenderLines invocation are taken in one step here: invocations write
\* disjoint rows and draw from sources of their own, so the image does not
\* depend on how their rows interleave.
InitEq ==
  /\ sched = "queue"
  /\ \E nw \in {1, EqWorkers}, sd \in 1..MaxSeed :
       t = [width |-> EqSize, height |-> EqSize, NumWorkers |-> nw, Seed |-> sd,
            ProgressFunc |-> FALSE, MaxDepth |-> 0, NumRaysPerPixel |-> 0,
            RayRadius |-> 0, Camera |-> [Aperture |-> 0]]
  /\ imageData = [y \in 0..(EqSize - 1) |-> [x \in 1..EqSize |-> <<0, 0, 0, 0>>]]
  /\ covered = [y \in 0..(EqSize - 1) |-> 0]
  /\ rowWrites = [y \in 0..(EqSize - 1) |-> 0]
  /\ pc = "idle"
  /\ wg = 0
  /\ workQueue = <<>>
  /\ qcap = 0
  /\ closed = FALSE
  /\ chunkSize = 0
  /\ fillY = 0
  /\ spawned = 0
  /\ w = [g \in Goroutines |-> NoLines]
  /\ rng = [g \in Goroutines |-> 0]
  /\ rngUsers = [g \in Goroutines |-> {}]
  /\ progressCalls = 0
  /\ progressTotal = 0
  /\ given = t
  /\ hitCall = NoHitCall
  /\ call = NoCall

NextEq ==
  \/ Render
  \/ RenderSingle
  \/ FillQueue
  \/ CloseQueue
  \/ SpawnWorker
  \/ WaitReturn
  \/ \E g \in Workers : WorkerChunk(g)
  \/ \E g \in Workers : WorkerExit(g)
  \/ RenderLinesLoop(Main)
  \/ LinesReturn(Main)

SpecEq == InitEq /\ [][NextEq]_vars

\* C6: with the same non-zero Seed, scene and settings, the EqSize x EqSize
\* render by 1 worker and the one by EqWorkers workers have the same value
\* for every pixel of the first MinChunk rows, the rows of the first chunk,
\* whose stream both derive from (0, Seed). The render by 1 worker is the
\* single stream image throughout.
C6_FirstChunkEqual ==
  Returned =>
    \A y \in Rows :
      (t.NumWorkers = 1 \/ y < MinChunk) => imageData[y] = SingleStreamImage(t)[y]

C6_Witness ==
  /\ Returned
  /\ t.NumWorkers = EqWorkers
  /\ t.width = EqSize /\ t.height = EqSize
  /\ t.Seed # 0
  /\ \E g \in Workers, h \in Workers :
       g # h /\ rngUsers[g] = {g} /\ rngUsers[h] = {h}
  /\ imageData[0] = SingleStreamImage(t)[0]
  /\ imageData[EqSize - 1] # SingleStreamImage(t)[EqSize - 1]

\* C6 as stated: the two renders have the same value for every pixel, that
\* is, every render of SpecEq returns the image of the render by 1 worker.
C6_EveryPixelEqual ==
  Returned => imageData = SingleStreamImage(t)

\* ------------------------------------------------------ Scene.Hit, Sphere.Hit
\* Coordinates, radii and ray parameters are integers.
Sub(u, v) == <<u[1] - v[1], u[2] - v[2], u[3] - v[3]>>
SMul(v, k) == <<v[1] * k, v[2] * k, v[3] * k>>
SDiv(v, k) == <<v[1] \div k, v[2] \div k, v[3] \div k>>
Neg(v) == <<-v[1], -v[2], -v[3]>>
Dot(u, v) == u[1] * v[1] + u[2] * v[2] + u[3] * v[3]
LengthSquared(v) == v[1] * v[1] + v[2] * v[2] + v[3] * v[3]

\* The largest k of lo..hi with k * k <= n, by bisection.
RECURSIVE SqrtIn(_, _, _)
SqrtIn(n, lo, hi) ==
  IF lo >= hi THEN lo
  ELSE IF ((lo + hi + 1) \div 2) * ((lo + hi + 1) \div 2) <= n
    THEN SqrtIn(n, (lo + hi + 1) \div 2, hi)
    ELSE SqrtIn(n, lo, (lo + hi + 1) \div 2 - 1)

\* math.Sqrt, rounded down to an integer.
Sqrt(n) == SqrtIn(n, 0, Min(n, 46340))

\* Ray.At
At(r, k) == Add(r.Origin, SMul(r.Direction, k))

\* An interval test that lets the end points in.
SurroundsClosed(i, x) == x >= i.Start /\ x <= i.End

\* Interval.Surrounds: strictly inside.
Surrounds(i, x) == x > i.Start /\ x < i.End

\* A SetFaceNormal that keeps the outward normal whatever the ray.
SetFaceNormalOutward(hr, r, outwardNormal) ==
  [hr EXCEPT !.FrontFace = Dot(r.Direction, outwardNormal) < 0,
             !.Normal = outwardNormal]

\* HitRecord.SetFaceNormal
SetFaceNormal(hr, r, outwardNormal) ==
  IF Dot(r.Direction, outwardNormal) < 0
    THEN [hr EXCEPT !.FrontFace = TRUE, !.Normal = outwardNormal]
    ELSE [hr EXCEPT !.FrontFace = FALSE, !.Normal = Neg(outwardNormal)]

\* The record Sphere.Hit leaves for the root it accepted.
SphereHitAt(s, r, hr, root) ==
  SetFaceNormal([hr EXCEPT !.Point = At(r, root), !.T = root, !.Mat = s.Mat],
                r, SDiv(Sub(At(r, root), s.Center), s.Radius))

\* A Sphere.Hit that tries the far root first.
SphereHitFarFirst(s, r, i, hr) ==
  LET oc == Sub(s.Center, r.Origin)
      a == LengthSquared(r.Direction)
      h == Dot(r.Direction, oc)
      c == LengthSquared(oc) - s.Radius * s.Radius
      discriminant == h * h - a * c
  IN IF discriminant < 0 \/ a = 0 THEN [hit |-> FALSE, hr |-> hr]
     ELSE LET sqrtD == Sqrt(discriminant)
              near == (h - sqrtD) \div a
              far == (h + sqrtD) \div a
          IN IF Surrounds(i, far)
               THEN [hit |-> TRUE, hr |-> SphereHitAt(s, r, hr, far)]
             ELSE IF Surrounds(i, near)
               THEN [hit |-> TRUE, hr |-> SphereHitAt(s, r, hr, near)]
             ELSE [hit |-> FALSE, hr |-> hr]

\* Sphere.Hit: the near root if the interval surrounds it, else the far one;
\* hr is written only when there is a hit. A direction of length 0 makes
\* both roots NaN, which no interval surrounds.
SphereHit(s, r, i, hr) ==
  LET oc == Sub(s.Center, r.Origin)
      a == LengthSquared(r.Direction)
      h == Dot(r.Direction, oc)
      c == LengthSquared(oc) - s.Radius * s.Radius
      discriminant == h * h - a * c
  IN IF discriminant < 0 \/ a = 0 THEN [hit |-> FALSE, hr |-> hr]
     ELSE LET sqrtD == Sqrt(discriminant)
              near == (h - sqrtD) \div a
              far == (h + sqrtD) \div a
          IN IF Surrounds(i, near)
               THEN [hit |-> TRUE, hr |-> SphereHitAt(s, r, hr, near)]
             ELSE IF Surrounds(i, far)
               THEN [hit |-> TRUE, hr |-> SphereHitAt(s, r, hr, far)]
             ELSE [hit |-> FALSE, hr |-> hr]

\* The interval Scene.Hit hands to every object, the whole one.
HitIntervalWhole(interval, closestSoFar) == interval

\* The interval Scene.Hit hands to an object: it ends at the closest hit.
HitInterval(interval, closestSoFar) ==
  [Start |-> interval.Start, End |-> closestSoFar]

\* The inputs of a call of Scene.Hit. The spheres have radius 1 and their
\* centres lie on the line of the ray, at distance 1 from it (the ray is
\* tangent) or at distance 2 (the ray misses); a ray starts at 0 or 1 and
\* runs forwards, backwards or nowhere.
Offsets == {0, 1, 2}
Spheres ==
  {[Center |-> <<cx, cy, 0>>, Radius |-> 1, Mat |-> "Lambertian"] :
     cx \in 0..MaxCenter, cy \in Offsets}
ObjectLists == UNION {[1..n -> Spheres] : n \in 0..MaxObjects}
HitRays ==
  {[Origin |-> <<ox, 0, 0>>, Direction |-> <<dx, 0, 0>>] :
     ox \in {0, 1}, dx \in {-1, 0, 1}}
Intervals ==
  {[Start |-> a, End |-> b] : a \in {0, 1}, b \in 1..MaxEnd}
\* hr := &HitRecord{}
NoHitRecord ==
  [Point |-> <<0, 0, 0>>, Normal |-> <<0, 0, 0>>, T |-> 0, Mat |-> "",
   FrontFace |-> FALSE]

\* A call of Scene.Hit about to start, the renderer idle.
InitHit ==
  /\ RenderInit
  /\ sched = "queue"
  /\ t = [width |-> 0, height |-> 0, NumWorkers |-> 0, Seed |-> 0,
          ProgressFunc |-> FALSE, MaxDepth |-> 0, NumRaysPerPixel |-> 0,
          RayRadius |-> 0, Camera |-> [Aperture |-> 0]]
  /\ call = NoCall
  /\ \E objects \in ObjectLists, r \in HitRays, interval \in Intervals :
       hitCall = [pc |-> "call", Objects |-> objects, r |-> r,
                  interval |-> interval, k |-> 0, closestSoFar |-> 0,
                  hitAnything |-> FALSE, hr |-> NoHitRecord]

\* Entry of Scene.Hit: closestSoFar := interval.End.
SceneHit ==
  /\ hitCall.pc = "call"
  /\ hitCall' = [hitCall EXCEPT !.pc = "loop", !.k = 1,
                                !.closestSoFar = hitCall.interval.End]
  /\ UNCHANGED <<sched, t, imageData, pc, wg, workQueue, qcap, closed,
                 chunkSize, fillY, spawned, w, rng, rngUsers, covered,
                 rowWrites, progressCalls, progressTotal, given, call>>

\* The update of Scene.Hit after object.Hit returned res.
ObjectHit(res) ==
  IF res.hit
    THEN [hitCall EXCEPT !.hitAnything = TRUE, !.closestSoFar = res.hr.T,
                         !.hr = res.hr, !.k = @ + 1]
    ELSE [hitCall EXCEPT !.k = @ + 1]

\* One iteration of the loop of Scene.Hit over s.Objects.
SceneHitObject ==
  /\ hitCall.pc = "loop"
  /\ hitCall.k <= Len(hitCall.Objects)
  /\ hitCall' = ObjectHit(SphereHit(hitCall.Objects[hitCall.k], hitCall.r,
                                    HitInterval(hitCall.interval,
                                                hitCall.closestSoFar),
                                    hitCall.hr))
  /\ UNCHANGED <<sched, t, imageData, pc, wg, workQueue, qcap, closed,
                 chunkSize, fillY, spawned, w, rng, rngUsers, covered,
                 rowWrites, progressCalls, progressTotal, given, call>>

\* return hitAnything
SceneHitReturn ==
  /\ hitCall.pc = "loop"
  /\ hitCall.k > Len(hitCall.Objects)
  /\ hitCall' = [hitCall EXCEPT !.pc = "returned"]
  /\ UNCHANGED <<sched, t, imageData, pc, wg, workQueue, qcap, closed,
                 chunkSize, fillY, spawned, w, rng, rngUsers, covered,
                 rowWrites, progressCalls, progressTotal, given, call>>

NextHit ==
  \/ SceneHit
  \/ SceneHitObject
  \/ SceneHitReturn

SpecHit == InitHit /\ [][NextHit]_vars

\* Sphere.Hit of object k of the call, alone, in the interval of the call.
AloneHit(k) ==
  SphereHit(hitCall.Objects[k], hitCall.r, hitCall.interval, NoHitRecord)

\* The hit parameters of the objects that are hit inside the interval.
HitTs ==
  {AloneHit(k).hr.T : k \in {j \in 1..Len(hitCall.Objects) : AloneHit(j).hit}}

MinOf(S) == CHOOSE x \in S : \A y \in S : x <= y

\* C9: Scene.Hit returns true exactly when some object is hit inside the
\* interval, and then the T of the record is the least hit parameter of all
\* the objects: a function of the set of objects, not of their order.
C9_ClosestOfAllObjects ==
  hitCall.pc = "returned" =>
    /\ hitCall.hitAnything <=> (HitTs # {})
    /\ hitCall.hitAnything => hitCall.hr.T = MinOf(HitTs)

C9_Witness ==
  /\ hitCall.pc = "returned"
  /\ Len(hitCall.Objects) = 3
  /\ \A k \in 1..3 : AloneHit(k).hit
  /\ AloneHit(2).hr.T < AloneHit(1).hr.T
  /\ AloneHit(2).hr.T < AloneHit(3).hr.T
  /\ hitCall.hr.T = AloneHit(2).hr.T

\* C10: when Scene.Hit reports a hit, the T of the record lies strictly
\* inside the interval of the call: Start < T < End.
C10_HitStrictlyInside ==
  (hitCall.pc = "returned" /\ hitCall.hitAnything) =>
    /\ hitCall.interval.Start < hitCall.hr.T
    /\ hitCall.hr.T < hitCall.interval.End

\* The first sphere meets the ray at 0 and at 2, the end points of the
\* interval, and is not hit; the second is hit at 1.
C10_Witness ==
  /\ hitCall.pc = "returned"
  /\ hitCall.hitAnything
  /\ hitCall.interval = [Start |-> 0, End |-> 2]
  /\ hitCall.r = [Origin |-> <<0, 0, 0>>, Direction |-> <<1, 0, 0>>]
  /\ Len(hitCall.Objects) = 2
  /\ hitCall.Objects[1].Center = <<1, 0, 0>> /\ hitCall.Objects[1].Radius = 1
  /\ ~AloneHit(1).hit
  /\ hitCall.hr.T = 1

\* ----------------------------------------------------- Render: its defaults
\* A Tracer of one pixel whose caller left each of MaxDepth, NumRaysPerPixel,
\* RayRadius and NumWorkers negative, zero or set.
InitDefaults ==
  /\ sched \in {"queue", "bands"}
  /\ \E md \in (0 - 1)..MaxSetting, nr \in (0 - 1)..MaxSetting,
        rr \in (0 - 1)..MaxSetting, nw \in (0 - 1)..MaxSetting :
       t = [width |-> 1, height |-> 1, NumWorkers |-> nw, Seed |-> 0,
            ProgressFunc |-> FALSE, MaxDepth |-> md, NumRaysPerPixel |-> nr,
            RayRadius |-> rr, Camera |-> [Aperture |-> 0]]
  /\ imageData = [y \in {0} |-> [x \in {1} |-> <<0, 0, 0, 0>>]]
  /\ covered = [y \in {0} |-> 0]
  /\ rowWrites = [y \in {0} |-> 0]
  /\ pc = "idle"
  /\ wg = 0
  /\ workQueue = <<>>
  /\ qcap = 0
  /\ closed = FALSE
  /\ chunkSize = 0
  /\ fillY = 0
  /\ spawned = 0
  /\ w = [g \in Goroutines |-> NoLines]
  /\ rng = [g \in Goroutines |-> 0]
  /\ rngUsers = [g \in Goroutines |-> {}]
  /\ progressCalls = 0
  /\ progressTotal = 0
  /\ given = t
  /\ hitCall = NoHitCall
  /\ call = NoCall

SpecDefaults == InitDefaults /\ [][Next]_vars

\* The value Render leaves in a field the caller set to v, whose default
\* is d.
Defaulted(v, d) == IF v <= 0 THEN d ELSE v

\* C17: Render replaces MaxDepth, NumRaysPerPixel, RayRadius and NumWorkers
\* by 10, 1, 0.5 and GOMAXPROCS exactly when the caller left them <= 0, and
\* a positive value of the caller stays, until Render returns.
C17_DefaultsWhenUnset ==
  /\ pc = "idle" => t = given
  /\ pc # "idle" =>
       /\ t.MaxDepth = Defaulted(given.MaxDepth, 10)
       /\ t.NumRaysPerPixel = Defaulted(given.NumRaysPerPixel, 1)
       /\ t.RayRadius = Defaulted(given.RayRadius, RadiusOne \div 2)
       /\ t.NumWorkers = Defaulted(given.NumWorkers, GoMaxProcs)

\* A Render that returned: two fields were negative or zero and got their
\* defaults, two were set and kept their values.
C17_Witness ==
  /\ Returned
  /\ given.MaxDepth < 0 /\ t.MaxDepth = DefaultMaxDepth
  /\ given.NumWorkers = 0 /\ t.NumWorkers = GoMaxProcs
  /\ given.NumRaysPerPixel = MaxSetting /\ t.NumRaysPerPixel = MaxSetting
  /\ given.RayRadius = MaxSetting /\ t.RayRadius = MaxSetting

\* ======================================================================
\* A call of one function of the package, on vectors and colours in fixed
\* point: a component x stands for x / FixOne.
Zero == <<0, 0, 0>>

\* Unit: v[i] / Length(v) for each component.
Unit(v) == SDiv(SMul(v, FixOne), Sqrt(LengthSquared(v)))

\* Dot and SMul of fixed point operands.
FixDot(u, v) == Dot(u, v) \div FixOne
FixSMul(v, k) == SDiv(SMul(v, k), FixOne)

\* Unit vectors that fixed point holds exactly: the axes and the 3-4-5
\* directions, with every order and sign of their components.
UnitVecs ==
  {v \in [1..3 -> {-FixOne, -800, -600, 0, 600, 800, FixOne}] :
     LengthSquared(v) = FixOne * FixOne}

\* Directions of rays: the unit vectors, scaled.
Dirs == {SMul(u, k) : u \in UnitVecs, k \in 1..MaxScale}

\* The renderer idle and no call of Scene.Hit, while the function runs.
InitIdle ==
  /\ RenderInit
  /\ sched = "queue"
  /\ t = [width |-> 0, height |-> 0, NumWorkers |-> 0, Seed |-> 0,
          ProgressFunc |-> FALSE, MaxDepth |-> 0, NumRaysPerPixel |-> 0,
          RayRadius |-> 0, Camera |-> [Aperture |-> 0]]
  /\ hitCall = NoHitCall

\* The variables the call leaves alone.
idle == <<sched, t, imageData, pc, wg, workQueue, qcap, closed, chunkSize,
          fillY, spawned, w, rng, rngUsers, covered, rowWrites,
          progressCalls, progressTotal, hitCall, given>>

\* The draw state of a call that owns the random source 1 in state s.
OneSource(s) == [heap |-> <<s>>, used |-> {}]

\* Ray{}
NoRay == [Rand |-> 0, Origin |-> Zero, Direction |-> Zero]

\* ---------------------------------------------- HitRecord.SetFaceNormal
\* hr.SetFaceNormal(r, outwardNormal)
SetFaceNormalCall ==
  /\ call.pc = "call"
  /\ call.fn = "SetFaceNormal"
  /\ call' = [call EXCEPT !.pc = "returned",
                          !.hr = SetFaceNormal(call.hr, call.r, call.outwardNormal)]
  /\ UNCHANGED idle

\* ------------------------------------------------------------ Metal.Scatter
\* Reflect: v - 2*dot(v,n)*n
Reflect(v, n) == Sub(v, FixSMul(n, 2 * FixDot(v, n)))

\* The reflection of rIn at the hit rec, fuzzed when Fuzz > 0, and the draw
\* state after it.
Reflected(m, st, rIn, rec) ==
  IF m.Fuzz > 0
    THEN [v |-> Add(Reflect(Unit(rIn.Direction), rec.Normal),
                    FixSMul(Unit(RandomUnitVector(st, rIn.Rand).v), m.Fuzz)),
          st |-> RandomUnitVector(st, rIn.Rand).st]
    ELSE [v |-> Reflect(Unit(rIn.Direction), rec.Normal), st |-> st]

\* A Metal that scatters whatever the side the reflection points to.
MetalScatterAlways(m, rIn, rec, reflected) ==
  [ok |-> TRUE, att |-> m.Albedo,
   ray |-> NewRay(rIn.Rand, rec.Point, reflected.v), st |-> reflected.st]

\* Metal.Scatter on vectors, for the reflected direction: a scatter when it
\* points out of the surface, absorbed otherwise.
MetalScatterRec(m, rIn, rec, reflected) ==
  IF Dot(reflected.v, rec.Normal) > 0
    THEN [ok |-> TRUE, att |-> m.Albedo,
          ray |-> NewRay(rIn.Rand, rec.Point, reflected.v), st |-> reflected.st]
    ELSE [ok |-> FALSE, att |-> Zero, ray |-> NoRay, st |-> reflected.st]

\* m.Scatter(rIn, rec) of a Metal
MetalScatterCall ==
  /\ call.pc = "call"
  /\ call.fn = "Metal.Scatter"
  /\ call' = [call EXCEPT
       !.pc = "returned",
       !.res = MetalScatterRec(call.m, call.rIn, call.rec,
                               Reflected(call.m, call.st, call.rIn, call.rec))]
  /\ UNCHANGED idle

\* ----------------------------------------------------------- Interval.Clamp
\* A Clamp with its two results exchanged and its end points clamped too.
ClampSwapped(i, x) ==
  IF x <= i.Start THEN i.End
  ELSE IF x >= i.End THEN i.Start
  ELSE x

\* Interval.Clamp
Clamp(i, x) ==
  IF x < i.Start THEN i.Start
  ELSE IF x > i.End THEN i.End
  ELSE x

\* i.Clamp(x), then i.Clamp of the result.
ClampCall ==
  /\ call.pc = "call"
  /\ call.fn = "Clamp"
  /\ call' = [call EXCEPT
       !.results = Append(@, Clamp(call.i, IF @ = <<>> THEN call.x ELSE @[Len(@)])),
       !.pc = IF Len(call.results) = 1 THEN "returned" ELSE "call"]
  /\ UNCHANGED idle

\* ------------------------------------------------------- RandomOnHemisphere
\* A RandomOnHemisphere that returns the random vector as drawn.
RandomOnHemisphereAsDrawn(uv, normal) ==
  [v |-> uv.v, onUnitSphere |-> uv.v, st |-> uv.st]

\* RandomOnHemisphere, for the result uv of RandomUnitVector (whose length
\* does not matter for the side it is on).
RandomOnHemisphere(uv, normal) ==
  IF Dot(uv.v, normal) > 0
    THEN [v |-> uv.v, onUnitSphere |-> uv.v, st |-> uv.st]
    ELSE [v |-> Neg(uv.v), onUnitSphere |-> uv.v, st |-> uv.st]

RandomOnHemisphereCall ==
  /\ call.pc = "call"
  /\ call.fn = "RandomOnHemisphere"
  /\ call' = [call EXCEPT
       !.pc = "returned",
       !.res = RandomOnHemisphere(RandomUnitVector(call.st, 1), call.normal)]
  /\ UNCHANGED idle

\* -------------------------------------------------------- Camera.Initialize
\* The defaults Initialize writes into the zero-valued fields of the Camera.
CameraDefaults(c) ==
  [c EXCEPT !.FocalLength = IF @ = 0 THEN FixOne ELSE @,
            !.ViewportHeight = IF @ = 0 THEN 2 * FixOne ELSE @,
            !.Up = IF @ = Zero THEN <<0, FixOne, 0>> ELSE @,
            !.LookAt = IF @ = Zero THEN <<0, 0, -FixOne>> ELSE @]

\* The computed fields Initialize writes, for the sides horizontal and
\* vertical of the viewport.
CameraViewport(c, horizontal, vertical, width, height) ==
  [c EXCEPT
     !.pixelXVector = SDiv(horizontal, width),
     !.pixelYVector = SDiv(vertical, height),
     !.pixel00 =
       Add(Sub(c.Position,
               Add(Add(SDiv(horizontal, 2), SDiv(vertical, 2)),
                   <<0, 0, c.FocalLength>>)),
           SDiv(Add(SDiv(horizontal, width), SDiv(vertical, height)), 2))]

\* Camera.Initialize, for the Camera c with its defaults set.
Initialize(c, width, height) ==
  CameraViewport(c,
                 <<(((FixOne * width) \div height) * c.ViewportHeight) \div FixOne, 0, 0>>,
                 <<0, -c.ViewportHeight, 0>>, width, height)

\* c.Initialize(width, height)
InitializeCall ==
  /\ call.pc = "call"
  /\ call.fn = "Initialize"
  /\ call' = [call EXCEPT
       !.pc = "returned",
       !.res = Initialize(CameraDefaults(call.camera), call.width, call.height)]
  /\ UNCHANGED idle

\* --------------------------------------- Scene.RayColor without objects
\* DefaultBackground: white (1,1,1) to blue (0.4,0.65,1.0).
DefaultSky ==
  [ColorA |-> <<FixOne, FixOne, FixOne>>, ColorB |-> <<400, 650, FixOne>>]

\* The blend of AmbientLight.Hit for a = 0.5*(unit.Y + 1), with the two
\* colours exchanged.
BlendSwapped(al, a) ==
  Add(FixSMul(al.ColorB, FixOne - a), FixSMul(al.ColorA, a))

\* The blend of AmbientLight.Hit for a = 0.5*(unit.Y + 1).
Blend(al, a) ==
  Add(FixSMul(al.ColorA, FixOne - a), FixSMul(al.ColorB, a))

\* Scene.RayColor in a scene without objects: the loop of Scene.Hit runs
\* over no object and reports no hit, and the result is AmbientLight.Hit.
SkyRayColor(scene, r, depth) ==
  IF depth <= 0 THEN Zero
  ELSE Blend(scene.Background, (Unit(r.Direction)[2] + FixOne) \div 2)

\* scene.RayColor(r, depth) in a scene without objects
SkyRayColorCall ==
  /\ call.pc = "call"
  /\ call.fn = "RayColor"
  /\ Len(call.scene.Objects) = 0
  /\ call' = [call EXCEPT !.pc = "returned",
                          !.res = SkyRayColor(call.scene, call.r, call.depth)]
  /\ UNCHANGED idle

\* ======================================================================
\* Scene.RayColor, one invocation at a time. The call keeps, per invocation
\* (the outermost first): its ray, its outcome ("depth", "miss", "absorbed"
\* or "scattered"), the attenuation of its scatter, and, once it returned,
\* its result.
\* A depth test that lets depth 0 through.
DepthExhaustedBelowZero(depth) == depth < 0

\* if depth <= 0
DepthExhausted(depth) == depth <= 0

\* A scattered invocation that returns the colour of the recursive call
\* as it is.
AttenuatedNot(attenuation, c) == c

\* return Mul(attenuation, s.RayColor(scattered, depth-1))
Attenuated(attenuation, c) == Mul(attenuation, c)

\* The invocation that found the depth exhausted, or hit nothing, or whose
\* material did not scatter: it returns the colour c.
RayColorLeaf(outcome, c, st, hits, scatters) ==
  [call EXCEPT !.pc = "unwind", !.st = st,
               !.rays = Append(@, call.r), !.outcomes = Append(@, outcome),
               !.atts = Append(@, Black), !.rets = <<c>>,
               !.hits = @ + hits, !.scatters = @ + scatters]

\* The invocation whose material scattered: it calls RayColor for the
\* scattered ray with depth-1.
RayColorRecurse(sc) ==
  [call EXCEPT !.st = sc.st, !.r = sc.ray, !.depth = @ - 1,
               !.rays = Append(@, call.r), !.outcomes = Append(@, "scattered"),
               !.atts = Append(@, sc.att),
               !.hits = @ + 1, !.scatters = @ + 1]

\* An invocation of Scene.RayColor, up to its return or its recursive call:
\* the depth test, s.Hit, and the Scatter of the material that was hit.
RayColorEnter ==
  /\ call.fn = "Scene.RayColor"
  /\ call.pc = "enter"
  /\ call' =
       IF DepthExhausted(call.depth)
         THEN RayColorLeaf("depth", Black, call.st, 0, 0)
       ELSE IF RenderSceneHit(call.scene, call.r).kind = "none"
         THEN RayColorLeaf("miss", AmbientLightHit(call.scene.Background, call.r),
                           call.st, 1, 0)
       ELSE IF Scatter(RenderSceneHit(call.scene, call.r), call.st, call.r).ok
         THEN RayColorRecurse(
                Scatter(RenderSceneHit(call.scene, call.r), call.st, call.r))
       ELSE RayColorLeaf("absorbed", Black,
              Scatter(RenderSceneHit(call.scene, call.r), call.st, call.r).st, 1, 1)
  /\ UNCHANGED idle

\* The return of a recursive call into the invocation that made it.
RayColorReturn ==
  /\ call.fn = "Scene.RayColor"
  /\ call.pc = "unwind"
  /\ Len(call.rets) < Len(call.rays)
  /\ call' = [call EXCEPT
       !.rets = <<Attenuated(call.atts[Len(call.rays) - Len(@)], @[1])>> \o @]
  /\ UNCHANGED idle

\* The return of the outermost invocation.
RayColorDone ==
  /\ call.fn = "Scene.RayColor"
  /\ call.pc = "unwind"
  /\ Len(call.rets) = Len(call.rays)
  /\ call' = [call EXCEPT !.pc = "returned"]
  /\ UNCHANGED idle

\* A call of Scene.RayColor in a scene that tells, per direction class, the
\* material a ray of this class hits first, if any.
InitColor ==
  /\ InitIdle
  /\ call \in
       {[fn |-> "Scene.RayColor", pc |-> "enter", depth0 |-> dp,
         scene |-> [Objects |-> objs, Background |-> DefaultBackground],
         r |-> NewRay(1, 0, d), depth |-> dp, st |-> OneSource(s),
         rays |-> <<>>, outcomes |-> <<>>, atts |-> <<>>, rets |-> <<>>,
         scatters |-> 0, hits |-> 0] :
          dp \in (0 - 1)..MaxColorDepth, d \in 0..(NDir - 1), s \in 0..MaxDraw,
          objs \in [1..NDir -> {[kind |-> "none"],
                                [kind |-> "Lambertian", Albedo |-> <<2, 2, 2>>],
                                [kind |-> "Metal", Albedo |-> <<4, 3, 3>>, Fuzz |-> 1],
                                [kind |-> "Dielectric", RefIdx |-> 6]}]}

NextColor ==
  \/ RayColorEnter
  \/ RayColorReturn
  \/ RayColorDone

\* A call that can take a step takes it.
SpecColor == InitColor /\ [][NextColor]_vars /\ WF_vars(NextColor)

\* ======================================================================
\* RichScene. A draw of rand.Float64 is k / RandSteps for some k of
\* 0..RandSteps-1; the scene under construction keeps the number of its
\* objects, the number of grid spheres among them and the material of the
\* last one; the call keeps the draws made for the current cell, in their
\* order, and whether the cell passed the filter.
\* A grid loop that runs one cell further.
InGridInclusive(i) == i <= GridHalf

\* a < 11, b < 11
InGrid(i) == i < GridHalf

\* The switch on chooseMat: diffuse below 0.8, metal below 0.95, else glass.
ChooseMaterial(chooseMat) ==
  IF 100 * chooseMat < 80 * RandSteps THEN "Lambertian"
  ELSE IF 100 * chooseMat < 95 * RandSteps THEN "Metal"
  ELSE "Dielectric"

\* Length(center.Minus(XYZ(4, 0.2, 0))) > 0.9 for the center
\* (a + 0.9*r1, 0.2, b + 0.9*r2), in units of 1 / (10 * RandSteps).
FarFromHero(a, b, r1, r2) ==
  (10 * RandSteps * a + 9 * r1 - 40 * RandSteps)
      * (10 * RandSteps * a + 9 * r1 - 40 * RandSteps)
    + (10 * RandSteps * b + 9 * r2) * (10 * RandSteps * b + 9 * r2)
  > (9 * RandSteps) * (9 * RandSteps)

\* A metal whose fuzz is not drawn.
MaterialDrawsNoFuzz(mat) ==
  IF mat = "Lambertian"
    THEN <<"albedo", "albedo", "albedo", "albedo", "albedo", "albedo">>
  ELSE IF mat = "Metal" THEN <<"albedo", "albedo", "albedo">>
  ELSE <<>>

\* The draws of the cases of the switch: Mul(Random(rand), Random(rand)) for
\* a diffuse sphere, RandomInRange and rand.Float64 for a metal, none for
\* glass.
MaterialDraws(mat) ==
  IF mat = "Lambertian"
    THEN <<"albedo", "albedo", "albedo", "albedo", "albedo", "albedo">>
  ELSE IF mat = "Metal" THEN <<"albedo", "albedo", "albedo", "fuzz">>
  ELSE <<>>

\* world.Objects = append(world.Objects, ...) of a sphere of material mat.
AppendSphere(world, mat, grid) ==
  [world EXCEPT !.n = @ + 1, !.grid = @ + grid, !.last = mat]

\* world := &Scene{} and the ground sphere; the loops start.
RichSceneGround ==
  /\ call.fn = "RichScene"
  /\ call.pc = "call"
  /\ call' = [call EXCEPT !.pc = "grid", !.a = -GridHalf, !.b = -GridHalf,
                          !.world = AppendSphere(@, "Lambertian", 0)]
  /\ UNCHANGED idle

\* The cell after (a, b) in the order of the two loops.
NextCell(c) ==
  IF InGrid(c.b + 1) THEN [c EXCEPT !.b = @ + 1, !.cells = @ + 1]
                     ELSE [c EXCEPT !.a = @ + 1, !.b = -GridHalf, !.cells = @ + 1]

\* chooseMat := rng.Float64(), kept as the material the switch selects
\* for it.
RichSceneChooseMat ==
  /\ call.fn = "RichScene"
  /\ call.pc = "grid"
  /\ InGrid(call.a)
  /\ \E chooseMat \in 0..(RandSteps - 1) :
       call' = [call EXCEPT !.pc = "center", !.mat = ChooseMaterial(chooseMat),
                            !.draws = <<"chooseMat">>]
  /\ UNCHANGED idle

\* The draws r1 and r2 of the center of the cell, the filter and the append:
\* the end of one iteration of the inner loop.
RichSceneCell ==
  /\ call.fn = "RichScene"
  /\ call.pc = "center"
  /\ \E r1 \in 0..(RandSteps - 1), r2 \in 0..(RandSteps - 1) :
       call' = NextCell(
         IF FarFromHero(call.a, call.b, r1, r2)
           THEN [call EXCEPT !.pc = "grid", !.accepted = TRUE,
                             !.world = AppendSphere(@, call.mat, 1),
                             !.draws = @ \o <<"center.X", "center.Z">>
                                         \o MaterialDraws(call.mat)]
           ELSE [call EXCEPT !.pc = "grid", !.accepted = FALSE,
                             !.draws = @ \o <<"center.X", "center.Z">>])
  /\ UNCHANGED idle

\* After the loops: the three hero spheres, and return world.
RichSceneReturn ==
  /\ call.fn = "RichScene"
  /\ call.pc = "grid"
  /\ ~InGrid(call.a)
  /\ call' = [call EXCEPT
       !.pc = "returned",
       !.world = AppendSphere(AppendSphere(AppendSphere(@, "Dielectric", 0),
                                           "Lambertian", 0), "Metal", 0)]
  /\ UNCHANGED idle

\* ======================================================================
\* The work queue of Render for images of many rows: the chunk size, the
\* channel and the fill loop, without the rendering of the rows.
\* chunkSize, numChunks and make(chan workChunk, numChunks)
RenderQueue ==
  /\ call.fn = "Render.workQueue"
  /\ call.pc = "call"
  /\ call' = [call EXCEPT
       !.pc = "fill",
       !.chunkSize = ChunkSize(call.height, call.NumWorkers),
       !.numChunks = NumChunks(call.height, ChunkSize(call.height, call.NumWorkers))]
  /\ UNCHANGED idle

\* One iteration of the fill loop: the send blocks when the channel is full.
RenderQueueSend ==
  /\ call.fn = "Render.workQueue"
  /\ call.pc = "fill"
  /\ call.y < call.height
  /\ Len(call.workQueue) < call.numChunks
  /\ call' = [call EXCEPT
       !.workQueue = Append(@, WorkChunk(call.y, call.chunkSize, call.height)),
       !.y = @ + call.chunkSize]
  /\ UNCHANGED idle

\* close(workQueue)
RenderQueueClose ==
  /\ call.fn = "Render.workQueue"
  /\ call.pc = "fill"
  /\ call.y >= call.height
  /\ call' = [call EXCEPT !.pc = "closed"]
  /\ UNCHANGED idle

\* ======================================================================
\* The drivers: Main of the tray command (the revision with exitAfterRender)
\* and Main of the benchmark command. A file is "absent", "old" (written
\* before the run), "partial" (created or truncated by os.Create and not
\* written to its end) or "image" (the PNG of this run). The record of the
\* call keeps the number of renders, of SaveImage calls and of their errors,
\* of keys other than q, Q and Ctrl-C, of the renders these keys started, of
\* the SaveImage calls of these renders and of terminal resizes, and what
\* made Main return.
\* A SaveImage that removes the file it could not encode.
SaveImageRemoves(files, fname, outcome) ==
  IF outcome = "create" THEN [files |-> files, err |-> TRUE]
  ELSE IF outcome = "encode"
    THEN [files |-> [files EXCEPT ![fname] = "absent"], err |-> TRUE]
  ELSE [files |-> [files EXCEPT ![fname] = "image"], err |-> FALSE]

\* SaveImage(img, fname), for the step that fails: "create" (os.Create),
\* "encode" (png.Encode), or "ok" (none).
SaveImage(files, fname, outcome) ==
  IF outcome = "create" THEN [files |-> files, err |-> TRUE]
  ELSE IF outcome = "encode"
    THEN [files |-> [files EXCEPT ![fname] = "partial"], err |-> TRUE]
  ELSE [files |-> [files EXCEPT ![fname] = "image"], err |-> FALSE]

\* The render of a driver followed by SaveImage, or by nothing when the
\* driver does not save.
RenderAndSave(c, saving, outcome) ==
  IF saving
    THEN [c EXCEPT !.renders = @ + 1, !.saves = @ + 1,
                   !.files = SaveImage(@, c.fname, outcome).files,
                   !.saveErrs = IF SaveImage(c.files, c.fname, outcome).err
                                  THEN @ + 1 ELSE @,
                   !.lastSave = outcome]
    ELSE [c EXCEPT !.renders = @ + 1, !.lastSave = "none"]

\* ap.OnResize of the tray command: it saves when fname is set and
\* showSplash or exitAfterRender holds.
OnResize(c, outcome) ==
  RenderAndSave(c, c.fname # "" /\ (c.showSplash \/ c.exitAfterRender), outcome)

\* Main of the tray command up to the key loop: the mode (raw when -exit is
\* not set and stdout is a terminal), ap.Open, the initial draw whose error
\* is dropped, and the return of 0 when exitAfterRender.
MainInitialDraw ==
  /\ call.fn = "Main"
  /\ call.pc = "call"
  /\ \E openOk \in BOOLEAN, outcome \in {"create", "encode", "ok"} :
       call' =
         IF ~call.fExit /\ call.terminal /\ ~openOk
           THEN [call EXCEPT !.pc = "exited", !.status = 1, !.exitBy = "open"]
         ELSE IF call.fExit \/ ~call.terminal
           THEN [OnResize([call EXCEPT !.exitAfterRender = TRUE], outcome)
                   EXCEPT !.pc = "exited", !.status = 0, !.exitBy = "render"]
         ELSE [OnResize([call EXCEPT !.showSplash = TRUE], outcome)
                 EXCEPT !.pc = "loop"]
  /\ UNCHANGED idle

\* A default case that renders again for every key, the first included.
KeyPressedAlwaysRenders(c, outcome) ==
  [OnResize(c, outcome) EXCEPT
     !.showSplash = FALSE, !.keys = @ + 1, !.keyRenders = @ + 1,
     !.keySaves = @ + (OnResize(c, outcome).saves - c.saves)]

\* The default case of the switch of the key loop: the first key hides the
\* splash, a later one calls OnResize.
KeyPressed(c, outcome) ==
  IF c.showSplash
    THEN [c EXCEPT !.showSplash = FALSE, !.keys = @ + 1]
    ELSE [OnResize(c, outcome) EXCEPT
            !.keys = @ + 1, !.keyRenders = @ + 1,
            !.keySaves = @ + (OnResize(c, outcome).saves - c.saves)]

\* The callback of ap.FPSTicks for a tick with input whose first byte is k
\* (a tick without input changes nothing): q, Q and Ctrl-C end the loop and
\* Main returns 0.
MainKey ==
  /\ call.fn = "Main"
  /\ call.pc = "loop"
  /\ \E k \in {"q", "Q", "ctrl-c", "other"}, outcome \in {"create", "encode", "ok"} :
       /\ k = "other" => call.keys < MaxKeys
       /\ call' = IF k = "other"
                    THEN KeyPressed(call, outcome)
                    ELSE [call EXCEPT !.pc = "exited", !.status = 0,
                                      !.exitBy = "key"]
  /\ UNCHANGED idle

\* A resize of the terminal during the key loop: ap.OnResize is called.
MainResize ==
  /\ call.fn = "Main"
  /\ call.pc = "loop"
  /\ call.resizes < MaxResizes
  /\ \E outcome \in {"create", "encode", "ok"} :
       call' = [OnResize(call, outcome) EXCEPT !.resizes = @ + 1]
  /\ UNCHANGED idle

\* ap.FPSTicks returns an error: Main returns 1.
MainLoopErr ==
  /\ call.fn = "Main"
  /\ call.pc = "loop"
  /\ call' = [call EXCEPT !.pc = "exited", !.status = 1, !.exitBy = "error"]
  /\ UNCHANGED idle

\* Main of the benchmark command: the render, SaveImage when fname is set,
\* and log.FErrf, which returns 1, when it fails.
BenchmarkMain ==
  /\ call.fn = "benchmark.Main"
  /\ call.pc = "call"
  /\ \E outcome \in {"create", "encode", "ok"} :
       call' = [RenderAndSave(call, call.fname # "", outcome) EXCEPT
                  !.pc = "exited",
                  !.exitBy = "render",
                  !.status = IF RenderAndSave(call, call.fname # "", outcome).saveErrs > 0
                               THEN 1 ELSE 0]
  /\ UNCHANGED idle

\* ======================================================================
\* The calls: one function and its arguments per behaviour.
\*  - SetFaceNormal for every ray direction (the zero vector included) and
\*    every unit normal;
\*  - Metal.Scatter without and with fuzz;
\*  - Clamp on intervals as the type allows them, Start > End (as in Empty)
\*    included;
\*  - RandomOnHemisphere for every state of the random source;
\*  - Initialize on Cameras as a caller sets them, each input left at zero
\*    or set;
\*  - RayColor in scenes without objects;
\*  - RichScene;
\*  - Main of the two commands, with and without -exit and -save, on a
\*    terminal or not, the file of -save written before the run or absent;
\*  - the work queue of Render for every height up to MaxFillHeight and
\*    every NumWorkers from 2 to MaxWorkers.
CallInputs ==
  {[fn |-> "SetFaceNormal", pc |-> "call",
    r |-> [Origin |-> Zero, Direction |-> d], outwardNormal |-> n,
    hr |-> NoHitRecord] : d \in Dirs \cup {Zero}, n \in UnitVecs}
  \cup
  {[fn |-> "Metal.Scatter", pc |-> "call",
    m |-> [kind |-> "Metal", Albedo |-> <<800, 800, 800>>, Fuzz |-> fz],
    st |-> OneSource(s),
    rIn |-> NewRay(1, Zero, d),
    rec |-> [NoHitRecord EXCEPT !.Point = <<FixOne, FixOne, 0>>, !.Normal = n],
    res |-> [ok |-> FALSE, att |-> Zero, ray |-> NoRay, st |-> OneSource(s)]] :
     fz \in {0, FixOne \div 2}, s \in 0..MaxUint, d \in Dirs, n \in UnitVecs}
  \cup
  {[fn |-> "Clamp", pc |-> "call", i |-> [Start |-> a, End |-> b], x |-> x,
    results |-> <<>>] :
     a \in (0 - 1)..MaxEnd, b \in (0 - 1)..MaxEnd, x \in (0 - 1)..MaxEnd}
  \cup
  {[fn |-> "RandomOnHemisphere", pc |-> "call", st |-> OneSource(s),
    normal |-> n, res |-> [v |-> Zero, onUnitSphere |-> Zero, st |-> OneSource(s)]] :
     s \in 0..(RngMod - 1), n \in UnitVecs}
  \cup
  {[fn |-> "Initialize", pc |-> "call", width |-> wd, height |-> ht,
    camera |-> c, res |-> c] :
     wd \in 1..(MaxWidth + 1), ht \in 1..(MaxWidth + 1),
     c \in {[Position |-> p, LookAt |-> la, Up |-> up, ViewportHeight |-> vh,
             FocalLength |-> fl, Aperture |-> 0,
             pixel00 |-> Zero, pixelXVector |-> Zero, pixelYVector |-> Zero] :
              p \in {Zero, <<0, 0, 5 * FixOne>>},
              la \in {Zero, <<0, 0, -FixOne>>, <<FixOne, 2 * FixOne, 3 * FixOne>>},
              up \in {Zero, <<0, FixOne, 0>>, <<FixOne, 0, 0>>},
              vh \in {0, 2 * FixOne, 3 * FixOne},
              fl \in {0, FixOne, 2 * FixOne}}}
  \cup
  {[fn |-> "RayColor", pc |-> "call",
    scene |-> [Objects |-> <<>>, Background |-> bg],
    r |-> NewRay(1, Zero, d), depth |-> dp, res |-> Zero] :
     bg \in {DefaultSky, [ColorA |-> Zero, ColorB |-> Zero]},
     d \in Dirs, dp \in {0, 1, DefaultMaxDepth}}
  \cup
  {[fn |-> "RichScene", pc |-> "call", a |-> 0, b |-> 0, cells |-> 0,
    mat |-> "", world |-> [n |-> 0, grid |-> 0, last |-> ""],
    draws |-> <<>>, accepted |-> FALSE]}
  \cup
  {[fn |-> f, pc |-> "call", fExit |-> ex, terminal |-> tty, fname |-> fn,
    files0 |-> fs, files |-> fs, showSplash |-> FALSE, exitAfterRender |-> FALSE,
    renders |-> 0, saves |-> 0, saveErrs |-> 0, lastSave |-> "none",
    keys |-> 0, keyRenders |-> 0, keySaves |-> 0, resizes |-> 0,
    status |-> 0 - 1,
    exitBy |-> "none"] :
     f \in {"Main", "benchmark.Main"}, ex \in BOOLEAN, tty \in BOOLEAN,
     fn \in {"", "out.png"},
     fs \in [{"out.png", "other.png"} -> {"absent", "old"}]}
  \cup
  {[fn |-> "Render.workQueue", pc |-> "call", height |-> ht, NumWorkers |-> nw,
    chunkSize |-> 0, numChunks |-> 0, workQueue |-> <<>>, y |-> 0] :
     ht \in 0..MaxFillHeight, nw \in 2..MaxWorkers}

InitCall == InitIdle /\ call \in CallInputs

NextCall ==
  \/ SetFaceNormalCall
  \/ MetalScatterCall
  \/ ClampCall
  \/ RandomOnHemisphereCall
  \/ InitializeCall
  \/ SkyRayColorCall
  \/ RichSceneGround
  \/ RichSceneChooseMat
  \/ RichSceneCell
  \/ RichSceneReturn
  \/ MainInitialDraw
  \/ MainKey
  \/ MainResize
  \/ MainLoopErr
  \/ BenchmarkMain
  \/ RenderQueue
  \/ RenderQueueSend
  \/ RenderQueueClose

SpecCall == InitCall /\ [][NextCall]_vars

\* C11: after SetFaceNormal(ray, outwardNormal), FrontFace is true exactly
\* when dot(ray.Direction, outwardNormal) < 0, Normal is outwardNormal when
\* FrontFace and its negation otherwise, and dot(ray.Direction, Normal) <= 0.
C11_NormalAgainstRay ==
  (call.fn = "SetFaceNormal" /\ call.pc = "returned") =>
    /\ call.hr.FrontFace <=> (Dot(call.r.Direction, call.outwardNormal) < 0)
    /\ call.hr.FrontFace => call.hr.Normal = call.outwardNormal
    /\ ~call.hr.FrontFace => call.hr.Normal = Neg(call.outwardNormal)
    /\ Dot(call.r.Direction, call.hr.Normal) <= 0

\* A ray that leaves through the surface: the normal is turned around.
C11_Witness ==
  /\ call.fn = "SetFaceNormal"
  /\ call.pc = "returned"
  /\ Dot(call.r.Direction, call.outwardNormal) > 0
  /\ ~call.hr.FrontFace
  /\ call.hr.Normal = Neg(call.outwardNormal)
  /\ Dot(call.r.Direction, call.hr.Normal) < 0

\* C14: for a hit whose normal is against the incoming ray, Metal.Scatter
\* with Fuzz = 0 reports a scatter exactly when the dot product of the
\* reflected direction with the normal is > 0, the scattered direction is
\* that reflection and never has a negative dot product with the normal, and
\* it reports an absorption otherwise.
C14_MetalScatterOutward ==
  (/\ call.fn = "Metal.Scatter"
   /\ call.pc = "returned"
   /\ call.m.Fuzz = 0
   /\ Dot(call.rIn.Direction, call.rec.Normal) <= 0) =>
    /\ call.res.ok <=>
         (Dot(Reflect(Unit(call.rIn.Direction), call.rec.Normal), call.rec.Normal) > 0)
    /\ call.res.ok =>
         /\ call.res.ray.Direction = Reflect(Unit(call.rIn.Direction), call.rec.Normal)
         /\ Dot(call.res.ray.Direction, call.rec.Normal) > 0
    /\ ~call.res.ok => call.res.ray = NoRay

\* A ray against the normal is mirrored and scatters.
C14_Witness ==
  /\ call.fn = "Metal.Scatter"
  /\ call.pc = "returned"
  /\ call.m.Fuzz = 0
  /\ call.rIn.Direction = <<600, -800, 0>>
  /\ call.rec.Normal = <<0, FixOne, 0>>
  /\ call.res.ok
  /\ call.res.ray.Direction = <<600, 800, 0>>

\* C19: for every Interval i with Start <= End and every t, Clamp is
\* idempotent: i.Clamp(i.Clamp(t)) = i.Clamp(t).
C19_ClampIdempotentOrdered ==
  (call.fn = "Clamp" /\ call.pc = "returned" /\ call.i.Start <= call.i.End) =>
    call.results[2] = call.results[1]

\* A value below the interval is clamped to Start, which Clamp keeps.
C19_Witness ==
  /\ call.fn = "Clamp"
  /\ call.pc = "returned"
  /\ call.i.Start < call.i.End
  /\ call.x < call.i.Start
  /\ call.results = <<call.i.Start, call.i.Start>>

\* C19 as claimed: Clamp is idempotent for every Interval and every t.
C19_ClampIdempotent ==
  (call.fn = "Clamp" /\ call.pc = "returned") =>
    call.results[2] = call.results[1]

\* C20: for every non-zero normal n, RandomOnHemisphere(n) returns a vector v
\* with dot(v, n) >= 0, and dot(v, n) > 0 unless the random unit vector is
\* orthogonal to n.
C20_OnHemisphereOrBoundary ==
  (call.fn = "RandomOnHemisphere" /\ call.pc = "returned") =>
    /\ Dot(call.res.v, call.normal) >= 0
    /\ Dot(call.res.onUnitSphere, call.normal) # 0 => Dot(call.res.v, call.normal) > 0

\* The random vector was on the other side and was turned around.
C20_Witness ==
  /\ call.fn = "RandomOnHemisphere"
  /\ call.pc = "returned"
  /\ Dot(call.res.onUnitSphere, call.normal) < 0
  /\ call.res.v = Neg(call.res.onUnitSphere)
  /\ Dot(call.res.v, call.normal) > 0

\* C20 as claimed: dot(v, n) > 0 for every value of the random unit vector.
C20_StrictlyOnHemisphere ==
  (call.fn = "RandomOnHemisphere" /\ call.pc = "returned") =>
    Dot(call.res.v, call.normal) > 0


\* C15: for the empty scene with the default sky, RayColor of the ray with
\* origin (0,0,0) and direction (0,-1,0) returns (1, 1, 1), the gradient at
\* a = 0.5*(unit.Y + 1) = 0, which is ColorA.
C15_StraightDownIsWhite ==
  (/\ call.fn = "RayColor"
   /\ call.pc = "returned"
   /\ call.scene = [Objects |-> <<>>, Background |-> DefaultSky]
   /\ call.r.Origin = Zero
   /\ call.r.Direction = <<0, -FixOne, 0>>
   /\ call.depth > 0) => call.res = <<FixOne, FixOne, FixOne>>

\* The call of C15 with a positive depth returned ColorA.
C15_Witness ==
  /\ call.fn = "RayColor"
  /\ call.pc = "returned"
  /\ call.scene = [Objects |-> <<>>, Background |-> DefaultSky]
  /\ call.r.Origin = Zero
  /\ call.r.Direction = <<0, -FixOne, 0>>
  /\ call.depth > 0
  /\ call.res = DefaultSky.ColorA

\* C15 as claimed: RayColor returns (0.7, 0.825, 0.5).
C15_StraightDownValue ==
  (/\ call.fn = "RayColor"
   /\ call.pc = "returned"
   /\ call.scene = [Objects |-> <<>>, Background |-> DefaultSky]
   /\ call.r.Origin = Zero
   /\ call.r.Direction = <<0, -FixOne, 0>>
   /\ call.depth > 0) => call.res = <<700, 825, 500>>

\* C18: Initialize changes only zero-valued inputs: FocalLength to 1, Up to
\* (0,1,0), ViewportHeight to its default, and LookAt to (0,0,-1) only when
\* Position and LookAt are both zero; every set input is unchanged.
C18_OnlyZeroInputsChange ==
  (call.fn = "Initialize" /\ call.pc = "returned") =>
    /\ call.res.FocalLength =
         (IF call.camera.FocalLength = 0 THEN FixOne ELSE call.camera.FocalLength)
    /\ call.res.ViewportHeight =
         (IF call.camera.ViewportHeight = 0 THEN 2 * FixOne
                                            ELSE call.camera.ViewportHeight)
    /\ call.res.Up = (IF call.camera.Up = Zero THEN <<0, FixOne, 0>> ELSE call.camera.Up)
    /\ call.res.LookAt =
         (IF call.camera.Position = Zero /\ call.camera.LookAt = Zero
            THEN <<0, 0, -FixOne>> ELSE call.camera.LookAt)
    /\ call.res.Position = call.camera.Position
    /\ call.res.Aperture = call.camera.Aperture

\* C12: Scene.RayColor(ray, depth) terminates, calls Material.Scatter at
\* most max(depth, 0) times along its path, and for depth <= 0 returns
\* (0,0,0) without testing the scene.
C12_DepthBoundsPath ==
  /\ <>(call.pc = "returned")
  /\ [](call.scatters <= Max(call.depth0, 0))
  /\ []((call.pc = "returned" /\ call.depth0 <= 0) =>
          (call.rets[1] = Black /\ call.hits = 0 /\ call.scatters = 0))

\* A path that scattered at every invocation until the depth ran out.
C12_Witness ==
  /\ call.fn = "Scene.RayColor"
  /\ call.pc = "returned"
  /\ call.depth0 = MaxColorDepth
  /\ call.scatters = call.depth0
  /\ call.outcomes[Len(call.outcomes)] = "depth"

\* C13: every invocation of RayColor returns (0,0,0) when the material of
\* the closest hit did not scatter, the background sample of its ray when
\* nothing was hit, and the attenuation times the result of the recursive
\* call when, and only when, the material scattered.
C13_ResultByOutcome ==
  (call.fn = "Scene.RayColor" /\ call.pc = "returned") =>
    \A k \in 1..Len(call.rays) :
      /\ call.outcomes[k] = "absorbed" => call.rets[k] = Black
      /\ call.outcomes[k] = "miss" =>
           call.rets[k] = AmbientLightHit(call.scene.Background, call.rays[k])
      /\ call.outcomes[k] = "scattered" =>
           (k < Len(call.rays) /\ call.rets[k] = Mul(call.atts[k], call.rets[k + 1]))
      /\ call.outcomes[k] # "scattered" => k = Len(call.rays)

\* A ray scattered once into the sky: the result is the attenuated sky and
\* differs from it.
C13_Witness ==
  /\ call.fn = "Scene.RayColor"
  /\ call.pc = "returned"
  /\ call.outcomes = <<"scattered", "miss">>
  /\ call.rets[2] = AmbientLightHit(call.scene.Background, call.rays[2])
  /\ call.rets[1] = Mul(call.atts[1], call.rets[2])
  /\ call.rets[1] # call.rets[2]

\* C16: RichScene, whatever its RNG draws, contains at most 488 objects:
\* the grid spheres that pass the 0.9-distance filter, at most one for each
\* of the 484 cells of the 22 x 22 grid and at least 480, 3 hero spheres and
\* 1 ground sphere.
C16_AtMostOnePerCell ==
  call.fn = "RichScene" =>
    /\ call.world.grid <= call.cells
    /\ call.cells <= 4 * GridHalf * GridHalf
    /\ call.pc = "returned" =>
         /\ call.cells = 4 * GridHalf * GridHalf
         /\ call.world.grid >= 4 * GridHalf * GridHalf - 4
         /\ call.world.n = call.world.grid + 3 + 1
         /\ call.world.n <= 4 * GridHalf * GridHalf + 4

\* A scene with two cells filtered out.
C16_Witness ==
  /\ call.fn = "RichScene"
  /\ call.pc = "returned"
  /\ call.world.grid = 4 * GridHalf * GridHalf - 2
  /\ call.world.n = 4 * GridHalf * GridHalf + 2

\* C16 as claimed: 489 objects, 485 of them grid spheres.
C16_ObjectCount ==
  (call.fn = "RichScene" /\ call.pc = "returned") =>
    (call.world.n = 489 /\ call.world.grid = 485)

\* C22: whenever a run of a driver hits a user-visible failure, in
\* particular when SaveImage returns an error, the driver exits with a
\* non-zero status.
C22_FailureExitsNonZero ==
  (/\ call.fn \in {"Main", "benchmark.Main"}
   /\ call.pc = "exited"
   /\ call.saveErrs > 0) => call.status # 0

\* C23: a SaveImage that fails, at os.Create or at png.Encode, removes no
\* file that existed before it, and changes no file but the one it was asked
\* to write.
C23_FailedSaveKeepsFiles ==
  [][(call.fn \in {"Main", "benchmark.Main"} /\ call'.saveErrs > call.saveErrs) =>
       \A f \in {"out.png", "other.png"} :
         /\ call.files[f] # "absent" => call'.files[f] # "absent"
         /\ f # call.fname => call'.files[f] = call.files[f]]_vars

\* The file of -save was there before the run, png.Encode failed, and the
\* file is still there, truncated by os.Create.
C23_Witness ==
  /\ call.fn = "Main"
  /\ call.fname = "out.png"
  /\ call.files0["out.png"] = "old"
  /\ call.lastSave = "encode"
  /\ call.saveErrs = 1
  /\ call.files["out.png"] = "partial"
  /\ call.files["other.png"] = call.files0["other.png"]

\* C24: in interactive mode the first key other than q, Q or Ctrl-C hides
\* the splash without a render, every later such key starts exactly one
\* render, and q, Q or Ctrl-C ends the loop with exit status 0, with the
\* splash shown or hidden.
C24_SplashThenRerender ==
  (/\ call.fn = "Main"
   /\ call.pc \in {"loop", "exited"}
   /\ call.exitBy \in {"none", "key", "error"}) =>
    /\ call.showSplash <=> call.keys = 0
    /\ call.keyRenders = Max(call.keys - 1, 0)
    /\ call.renders = 1 + call.keyRenders + call.resizes
    /\ call.exitBy = "key" => call.status = 0

\* Two keys and then q: one render besides the initial draw, status 0.
C24_Witness ==
  /\ call.fn = "Main"
  /\ call.pc = "exited"
  /\ call.exitBy = "key"
  /\ call.keys = 2
  /\ call.resizes = 0
  /\ call.renders = 2
  /\ ~call.showSplash
  /\ call.status = 0

\* C29: with -save set the file is written only once per run: among all
\* calls of OnResize only one saves, and the renders started by keys never
\* save.
C29_SavedOncePerRun ==
  (call.fn = "Main" /\ call.fname # "") =>
    (call.saves <= 1 /\ call.keySaves = 0)

\* C21: a Tracer with width <= 0 or height <= 0 never starts rendering: its
\* Render does not get past its entry and returns no image.
C21_NoRenderOfEmptyImage ==
  (t.width <= 0 \/ t.height <= 0) => pc = "idle"

\* C26: Sphere.Hit reports the smaller root (h - sqrt(disc))/a whenever it
\* lies strictly inside the interval, the larger root only when the smaller
\* one does not and the larger one does, and a miss when the discriminant is
\* negative or neither root lies strictly inside the interval. Stated for
\* the first object of Scene.Hit, which is handed the interval of the call.
C26_SmallerRootFirst ==
  (hitCall.pc = "loop" /\ hitCall.k = 2) =>
    LET s == hitCall.Objects[1]
        r == hitCall.r
        i == hitCall.interval
        a == LengthSquared(r.Direction)
        h == Dot(r.Direction, Sub(s.Center, r.Origin))
        disc == h * h
                  - a * (LengthSquared(Sub(s.Center, r.Origin)) - s.Radius * s.Radius)
        small == (h - Sqrt(disc)) \div a
        large == (h + Sqrt(disc)) \div a
        roots == a # 0 /\ disc >= 0
    IN /\ (roots /\ i.Start < small /\ small < i.End) =>
            (hitCall.hitAnything /\ hitCall.hr.T = small)
       /\ (roots /\ ~(i.Start < small /\ small < i.End)
                 /\ i.Start < large /\ large < i.End) =>
            (hitCall.hitAnything /\ hitCall.hr.T = large)
       /\ (~roots \/ (~(i.Start < small /\ small < i.End)
                       /\ ~(i.Start < large /\ large < i.End))) =>
            (~hitCall.hitAnything /\ hitCall.hr = NoHitRecord)

\* Both roots, 1 and 3, lie strictly inside (0, 4): the hit is at 1.
C26_Witness ==
  /\ hitCall.pc = "loop"
  /\ hitCall.k = 2
  /\ hitCall.interval = [Start |-> 0, End |-> 4]
  /\ hitCall.r = [Origin |-> <<0, 0, 0>>, Direction |-> <<1, 0, 0>>]
  /\ hitCall.Objects[1].Center = <<2, 0, 0>>
  /\ hitCall.hitAnything
  /\ hitCall.hr.T = 1

\* C25: with NumWorkers > 1 the rows 0..height-1 are split, in increasing
\* row order, into ceil(height / chunkSize) chunks, where chunkSize is
\* max(4, height / (NumWorkers*4)) in integer division; every chunk but the
\* last has exactly chunkSize rows and the last one has 1..chunkSize rows.
C25_ChunksOfRows ==
  (call.fn = "Render.workQueue" /\ call.pc \in {"fill", "closed"}) =>
    /\ call.chunkSize =
         (IF call.height \div (call.NumWorkers * 4) > 4
            THEN call.height \div (call.NumWorkers * 4) ELSE 4)
    /\ \A n \in 1..Len(call.workQueue) :
         /\ call.workQueue[n].startY = (n - 1) * call.chunkSize
         /\ call.workQueue[n].endY - call.workQueue[n].startY >= 1
         /\ call.workQueue[n].endY - call.workQueue[n].startY <= call.chunkSize
         /\ call.workQueue[n].endY <= call.height
         /\ n < Len(call.workQueue) =>
              call.workQueue[n].endY - call.workQueue[n].startY = call.chunkSize
    /\ call.pc = "closed" =>
         /\ Len(call.workQueue) * call.chunkSize >= call.height
         /\ (Len(call.workQueue) - 1) * call.chunkSize < call.height
         /\ Len(call.workQueue) > 0 =>
              call.workQueue[Len(call.workQueue)].endY = call.height

\* 41 rows and 2 workers: chunks of 5 rows, 9 of them, the last of 1 row.
C25_Witness ==
  /\ call.fn = "Render.workQueue"
  /\ call.pc = "closed"
  /\ call.height = 41
  /\ call.NumWorkers = 2
  /\ call.chunkSize = 5
  /\ Len(call.workQueue) = 9
  /\ call.workQueue[9] = [startY |-> 40, endY |-> 41]

\* C27: RichScene draws in a fixed order for each cell of the grid: one draw
\* for the material choice, then two for the centre, also for a cell the
\* filter skips; then, only for an accepted cell, six draws for a Lambertian
\* albedo, four for a metal (three albedo, one fuzz), none for a dielectric;
\* the ground and the hero spheres draw nothing.
C27_DrawsPerCell ==
  call.fn = "RichScene" =>
    /\ call.pc = "center" => call.draws = <<"chooseMat">>
    /\ call.cells = 0 /\ call.pc # "center" => call.draws = <<>>
    /\ call.cells > 0 /\ call.pc # "center" =>
         call.draws =
           <<"chooseMat", "center.X", "center.Z">> \o
           (IF call.accepted /\ call.mat = "Lambertian"
              THEN <<"albedo", "albedo", "albedo", "albedo", "albedo", "albedo">>
            ELSE IF call.accepted /\ call.mat = "Metal"
              THEN <<"albedo", "albedo", "albedo", "fuzz">>
            ELSE <<>>)
    /\ call.pc = "grid" /\ call.accepted => call.world.last = call.mat

\* A metal cell that passed the filter: seven draws.
C27_Witness ==
  /\ call.fn = "RichScene"
  /\ call.pc = "grid"
  /\ call.accepted
  /\ call.mat = "Metal"
  /\ call.world.last = "Metal"
  /\ Len(call.draws) = 7
  /\ call.draws[7] = "fuzz"

\* C28: RenderLines(yStart, yEnd) writes only the pixels of the rows
\* yStart <= y < yEnd: a step that changes a row of the image buffer is the
\* step of a RenderLines invocation at this row, which lies in its range,
\* and every other row is as before.
C28_OnlyRowsOfTheRange ==
  [][\A y \in Rows :
       imageData'[y] # imageData[y] =>
         \E g \in Goroutines :
           /\ w[g].pc = "lines"
           /\ w'[g].y = w[g].y + 1
           /\ y = w[g].y
           /\ w[g].yStart <= y
           /\ y < w[g].yEnd]_vars

\* A RenderLines invocation at the end of its range: its rows are written
\* and a row after its range is still zero.
C28_Witness ==
  /\ t.width > 0
  /\ \E g \in Goroutines :
       /\ w[g].pc = "lines"
       /\ w[g].yStart < w[g].yEnd
       /\ w[g].y = w[g].yEnd
       /\ w[g].yEnd < t.height
       /\ \A y \in w[g].yStart..(w[g].yEnd - 1), x \in 0..(t.width - 1) :
            Pixel(x, y)[4] = Alpha
       /\ \A x \in 0..(t.width - 1) : Pixel(x, w[g].yEnd) = <<0, 0, 0, 0>>

\* C30: Render of the work queue revision terminates for every
\* NumWorkers >= 2 and every height >= 0: the capacity of the queue is the
\* number of chunks sent, so the fill loop, which runs before any worker
\* starts, never blocks; each chunk is received by exactly one worker; and
\* every worker, also one that receives no chunk, exits once the closed
\* queue is drained.
C30_RenderTerminates ==
  /\ (sched = "queue" /\ ApplyDefaults(t).NumWorkers >= 2) =>
       <>(/\ pc = "returned"
          /\ wg = 0
          /\ workQueue = <<>>
          /\ \A g \in 1..t.NumWorkers : w[g].pc = "exit"
          /\ \A y \in Rows : covered[y] = 1)
  /\ [](pc = "fill" => (spawned = 0 /\ (fillY < t.height => Len(workQueue) < qcap)))
  /\ []((pc = "spawn" /\ spawned = 0) => (closed /\ Len(workQueue) = qcap))

\* Three workers and one chunk: two workers received nothing, all three
\* have left and Render has returned.
C30_Witness ==
  /\ sched = "queue"
  /\ pc = "returned"
  /\ t.NumWorkers = 3
  /\ t.height = 1
  /\ qcap = 1
  /\ \A g \in 1..3 : w[g].pc = "exit"
  /\ covered[0] = 1

====
